---------------------------- MODULE Spec2Model ----------------------------
(***************************************************************************)
(* Model of the video-ingestion analysis core of zhulong                   *)
(* (backend/pkg/video): VideoValidator (format sniffing),                  *)
(* VideoInfoExtractor (container walkers) and SizeLimitManager.            *)
(*                                                                         *)
(* Conventions                                                             *)
(*  - a byte buffer ([]byte) is a sequence over 0..255; Go's 0-based       *)
(*    half-open slice data[lo:hi] is Slice(data, lo, hi);                  *)
(*  - a Go string is a sequence of one-character strings, so that          *)
(*    filepath.Ext, strings.ToLower and strings.TrimPrefix are computed;   *)
(*  - TLC's integers are 32 bits wide, so a uint32 or int64 of the program *)
(*    is a little-endian sequence of base-256 digits (4 or 8 of them), an  *)
(*    int64 in two's complement; Go's int is the 64-bit int of the amd64   *)
(*    and arm64 builds.                                                    *)
(***************************************************************************)
EXTENDS Integers, Sequences, FiniteSets, TLC

VARIABLES
    call,          \* the request the caller has in flight, or Idle
    ret,           \* what the operation returned for it, or NoRet
    prev,          \* the previous DetectFormatByMagicNumber call: [data, ret], or NoRet
    maxFileSize,   \* SizeLimitManager.maxFileSize (int64)
    minFileSize,   \* SizeLimitManager.minFileSize (int64)
    formatLimits,  \* SizeLimitManager.formatLimits (map format -> int64)
    wpc,           \* the writer goroutine: its call and the statement it is at
    rpc,           \* the reader goroutine: its call, the statement it is at, its locals
    committed,     \* the (max, min) pairs the manager held between writer calls
    maxWidth,      \* ThumbnailGenerator.maxWidth (int)
    maxHeight,     \* ThumbnailGenerator.maxHeight (int)
    minWidth,      \* ThumbnailGenerator.minWidth (int)
    minHeight,     \* ThumbnailGenerator.minHeight (int)
    objects,       \* the storage's bucket: object name -> the object put there
    session        \* the uploading client's multipart session and the parts it sent

\* the fields of the thumbnail generator
generator == <<maxWidth, maxHeight, minWidth, minHeight>>

\* the storage and its client
storage == <<objects, session>>

vars == <<call, ret, prev, maxFileSize, minFileSize, formatLimits, wpc, rpc, committed,
          generator, storage>>

-----------------------------------------------------------------------------
(* Bytes, slices and Go's bytes package *)

Byte == 0..255

Min(a, b) == IF a < b THEN a ELSE b

\* data[lo:hi] is legal in Go iff 0 <= lo <= hi <= len(data) (cap = len here)
SliceOK(data, lo, hi) == 0 <= lo /\ lo <= hi /\ hi <= Len(data)

Slice(data, lo, hi) == SubSeq(data, lo + 1, hi)

\* bytes.Equal
BytesEqual(a, b) == a = b

\* bytes.HasPrefix
HasPrefix(s, prefix) ==
    Len(s) >= Len(prefix) /\ BytesEqual(Slice(s, 0, Len(prefix)), prefix)

\* the first index i (0-based) with s[i:i+len(sep)] = sep, or -1: bytes.Index
BytesIndex(s, sep) ==
    LET hits == {i \in 0..(Len(s) - Len(sep)) : Slice(s, i, i + Len(sep)) = sep}
    IN IF hits = {} THEN -1 ELSE CHOOSE i \in hits : \A j \in hits : i <= j

\* bytes.Contains
BytesContains(s, sep) == BytesIndex(s, sep) # -1

-----------------------------------------------------------------------------
(* Fixed-width integers: little-endian sequences of base-256 digits *)

RECURSIVE WFromInt(_, _)
\* the k digits of a natural n below 2^31
WFromInt(n, k) == IF k = 0 THEN <<>> ELSE <<n % 256>> \o WFromInt(n \div 256, k - 1)

WZero(k) == [i \in 1..k |-> 0]

WIsZero(w) == \A i \in 1..Len(w) : w[i] = 0

\* w widened (zero-extended) or cut (reduced modulo 256^k) to k digits
WResize(w, k) == SubSeq(w \o WZero(k), 1, k)

\* a < b, both unsigned: the highest digit in which they differ decides
WLess(a, b) ==
    LET k == IF Len(a) > Len(b) THEN Len(a) ELSE Len(b)
        x == WResize(a, k)
        y == WResize(b, k)
    IN \E i \in 1..k : x[i] < y[i] /\ \A j \in (i + 1)..k : x[j] = y[j]

WLeq(a, b) == ~WLess(b, a)

\* the value of w, which must be below 2^31
RECURSIVE WToInt(_)
WToInt(w) == IF w = <<>> THEN 0 ELSE w[1] + 256 * WToInt(Tail(w))

\* whether w < 2^31, so that it is an integer TLC can hold
WIsSmall(w) == \A i \in 1..Len(w) : (i > 4 => w[i] = 0) /\ (i = 4 => w[i] < 128)

\* a + b modulo 256^k: digit i takes a carry when a lower digit overflows and every
\* digit between passes the carry on
WAdd(a, b, k) ==
    LET x == WResize(a, k)
        y == WResize(b, k)
        Carry(i) == \E j \in 1..(i - 1) :
                       /\ x[j] + y[j] > 255
                       /\ \A l \in (j + 1)..(i - 1) : x[l] + y[l] = 255
    IN SubSeq([i \in 1..k |-> (x[i] + y[i] + (IF Carry(i) THEN 1 ELSE 0)) % 256], 1, k)

\* a - b modulo 256^k: digit i gives a borrow when a lower digit of a is below b's and
\* every digit between is equal
WSub(a, b, k) ==
    LET x == WResize(a, k)
        y == WResize(b, k)
        Borrow(i) == \E j \in 1..(i - 1) :
                        /\ x[j] < y[j]
                        /\ \A l \in (j + 1)..(i - 1) : x[l] = y[l]
    IN SubSeq([i \in 1..k |-> (x[i] - y[i] - (IF Borrow(i) THEN 1 ELSE 0) + 256) % 256],
              1, k)

RECURSIVE WNormalizeFrom(_, _, _)
\* the digits of the number whose columns (each below 2^30) are cols, from column i on
WNormalizeFrom(cols, i, carry) ==
    IF i > Len(cols) THEN <<>>
    ELSE <<(cols[i] + carry) % 256>>
            \o WNormalizeFrom(cols, i + 1, (cols[i] + carry) \div 256)

\* a * m modulo 256^k, for a factor m below 2^22
WMulSmall(a, m, k) ==
    LET x == WResize(a, k)
    IN WNormalizeFrom(SubSeq([i \in 1..k |-> x[i] * m], 1, k), 1, 0)

RECURSIVE WColumn(_, _, _, _)
\* the sum of x[i] * y[c + 1 - i] for i in 1..n
WColumn(x, y, c, n) ==
    IF n = 0 THEN 0 ELSE x[n] * y[c + 1 - n] + WColumn(x, y, c, n - 1)

\* a * b modulo 256^k, for k up to 16
WMul(a, b, k) ==
    LET x == WResize(a, k)
        y == WResize(b, k)
    IN WNormalizeFrom(SubSeq([c \in 1..k |-> WColumn(x, y, c, c)], 1, k), 1, 0)

RECURSIVE WDivSmallFrom(_, _, _)
\* the quotient's digits i.. and the remainder of the digits i.. of a divided by m
WDivSmallFrom(a, m, i) ==
    IF i > Len(a) THEN [q |-> <<>>, rem |-> 0]
    ELSE LET high == WDivSmallFrom(a, m, i + 1)
         IN [q |-> <<(high.rem * 256 + a[i]) \div m>> \o high.q,
             rem |-> (high.rem * 256 + a[i]) % m]

\* floor(a / m) for a divisor 0 < m < 2^22
WDivSmall(a, m) == WDivSmallFrom(a, m, 1).q

\* a mod m for a divisor 0 < m < 2^22
WModSmall(a, m) == WDivSmallFrom(a, m, 1).rem

\* the largest q below 256 with q * b <= r: its high half, then its low half
WQuotientDigit(r, b) ==
    LET Fits(q) == WLeq(WMulSmall(b, q, Len(b) + 2), r)
        high == CHOOSE h \in 0..15 : Fits(16 * h) /\ (h < 15 => ~Fits(16 * (h + 1)))
    IN CHOOSE q \in (16 * high)..(16 * high + 15) :
          Fits(q) /\ (q < 16 * high + 15 => ~Fits(q + 1))

\* one step of the long division: digit d of the dividend brought down to the
\* remainder high.rem of the higher digits; nothing to divide gives the digit 0
WDivStep(high, d, b) ==
    IF high.rem = WZero(Len(b)) /\ d = 0 THEN [q |-> <<0>> \o high.q, rem |-> high.rem]
    ELSE LET r == <<d>> \o high.rem
             q == WQuotientDigit(r, b)
         IN [q |-> <<q>> \o high.q,
             rem |-> WResize(WSub(r, WMulSmall(b, q, Len(b) + 2), Len(b) + 2), Len(b))]

RECURSIVE WDivFrom(_, _, _)
\* the quotient's digits i.. and the remainder of the digits i.. of a divided by b
WDivFrom(a, b, i) ==
    IF i > Len(a) THEN [q |-> <<>>, rem |-> WZero(Len(b))]
    ELSE WDivStep(WDivFrom(a, b, i + 1), a[i], b)

\* floor(a / b) for b # 0, both unsigned, in Len(a) digits
WDiv(a, b) == WDivFrom(a, b, 1).q

\* binary.BigEndian.Uint32
BigEndianUint32(b) == <<b[4], b[3], b[2], b[1]>>

\* binary.LittleEndian.Uint32
LittleEndianUint32(b) == <<b[1], b[2], b[3], b[4]>>

\* int64(x) and int(x) of a uint32 x
I64OfU32(w) == WResize(w, 8)

\* the int64 of an integer n of the model, -2^31 < n < 2^31
I64(n) == IF n >= 0 THEN WFromInt(n, 8) ELSE WSub(WZero(8), WFromInt(-n, 8), 8)

\* x < 0 for an int64 x
I64Negative(x) == x[8] >= 128

\* a < b for int64 a, b
I64Less(a, b) ==
    IF I64Negative(a) # I64Negative(b) THEN I64Negative(a) ELSE WLess(a, b)

I64Leq(a, b) == ~I64Less(b, a)

-----------------------------------------------------------------------------
(* Go strings: path/filepath and strings *)

UpperLetters == <<"A","B","C","D","E","F","G","H","I","J","K","L","M",
                  "N","O","P","Q","R","S","T","U","V","W","X","Y","Z">>

LowerLetters == <<"a","b","c","d","e","f","g","h","i","j","k","l","m",
                  "n","o","p","q","r","s","t","u","v","w","x","y","z">>

ToLowerChar(c) ==
    IF \E i \in 1..26 : UpperLetters[i] = c
    THEN LowerLetters[CHOOSE i \in 1..26 : UpperLetters[i] = c]
    ELSE c

\* strings.ToLower
ToLower(s) == [i \in 1..Len(s) |-> ToLowerChar(s[i])]

\* strings.TrimPrefix(s, ".")
TrimDot(s) == IF Len(s) >= 1 /\ s[1] = "." THEN SubSeq(s, 2, Len(s)) ELSE s

\* filepath.Ext: the suffix from the last dot of the last path element, dot included
RECURSIVE ExtFrom(_, _)
ExtFrom(path, i) ==
    IF i < 1 \/ path[i] = "/" THEN <<>>
    ELSE IF path[i] = "." THEN SubSeq(path, i, Len(path))
    ELSE ExtFrom(path, i - 1)

FilepathExt(path) == ExtFrom(path, Len(path))

\* ext := strings.ToLower(strings.TrimPrefix(filepath.Ext(name), "."))
FileExtension(filename) == ToLower(TrimDot(FilepathExt(filename)))

-----------------------------------------------------------------------------
(* VideoValidator *)

MP4  == <<"m","p","4">>
WEBM == <<"w","e","b","m">>
AVI  == <<"a","v","i">>
MOV  == <<"m","o","v">>

\* initSupportedFormats
supportedFormats == {MP4, WEBM, AVI, MOV}

\* initMagicNumbers
magicNumbers(format) ==
    CASE format = MP4  -> <<102, 116, 121, 112>>   \* "ftyp"
      [] format = WEBM -> <<26, 69, 223, 163>>     \* EBML header
      [] format = AVI  -> <<82, 73, 70, 70>>       \* "RIFF"
      [] format = MOV  -> <<102, 116, 121, 112>>   \* "ftyp"

AviMarker == <<65, 86, 73, 32>>                    \* "AVI "

mp4Brands == { <<109, 112, 52, 49>>,               \* mp41
               <<109, 112, 52, 50>>,               \* mp42
               <<105, 115, 111, 109>>,             \* isom
               <<100, 97, 115, 104>> }             \* dash

movBrands == { <<113, 116, 32, 32>> }              \* "qt  "

\* IsFormatSupported
IsFormatSupported(format) == ToLower(format) \in supportedFormats

\* the errors of the package, named as the design names them
ErrIncompleteHeader   == "IncompleteHeader"     \* "数据长度不足以检测格式" / "文件头信息不完整"
ErrUnrecognizedFormat == "UnrecognizedFormat"   \* "无法识别的视频格式"
ErrEmptyFilename      == "EmptyFilename"        \* "文件名不能为空"
ErrEmptyContent       == "EmptyContent"         \* "文件内容为空"
ErrUnsupportedFormat  == "UnsupportedFormat"    \* "不支持的视频格式: %s"
ErrFormatMismatch     == "FormatMismatch"       \* "文件内容与扩展名不匹配"
ErrEmptyData          == "EmptyData"            \* "文件数据为空"
ErrTooShort           == "TooShort"             \* "数据太短，无法提取..."
NoError               == "nil"

\* DetectFormatByMagicNumber with the "AVI " check of a RIFF buffer left out
DetectFormat_RiffIsAvi(data) ==
    IF Len(data) < 4 THEN [format |-> <<>>, err |-> ErrIncompleteHeader]
    ELSE IF HasPrefix(data, magicNumbers(WEBM)) THEN [format |-> WEBM, err |-> NoError]
    ELSE IF HasPrefix(data, magicNumbers(AVI)) THEN [format |-> AVI, err |-> NoError]
    ELSE IF Len(data) >= 12 /\ BytesEqual(Slice(data, 4, 8), magicNumbers(MP4))
         THEN LET brand == Slice(data, 8, 12)
              IN IF \E b \in mp4Brands : BytesEqual(brand, b)
                 THEN [format |-> MP4, err |-> NoError]
                 ELSE IF \E b \in movBrands : BytesEqual(brand, b)
                 THEN [format |-> MOV, err |-> NoError]
                 ELSE [format |-> <<>>, err |-> ErrUnrecognizedFormat]
    ELSE [format |-> <<>>, err |-> ErrUnrecognizedFormat]

\* DetectFormatByMagicNumber with the ftyp check moved before the EBML check
DetectFormat_FtypFirst(data) ==
    IF Len(data) < 4 THEN [format |-> <<>>, err |-> ErrIncompleteHeader]
    ELSE IF /\ Len(data) >= 12
            /\ BytesEqual(Slice(data, 4, 8), magicNumbers(MP4))
            /\ \E b \in mp4Brands : BytesEqual(Slice(data, 8, 12), b)
         THEN [format |-> MP4, err |-> NoError]
    ELSE IF /\ Len(data) >= 12
            /\ BytesEqual(Slice(data, 4, 8), magicNumbers(MP4))
            /\ \E b \in movBrands : BytesEqual(Slice(data, 8, 12), b)
         THEN [format |-> MOV, err |-> NoError]
    ELSE IF HasPrefix(data, magicNumbers(WEBM)) THEN [format |-> WEBM, err |-> NoError]
    ELSE IF /\ HasPrefix(data, magicNumbers(AVI))
            /\ Len(data) >= 12
            /\ BytesEqual(Slice(data, 8, 12), AviMarker)
         THEN [format |-> AVI, err |-> NoError]
    ELSE [format |-> <<>>, err |-> ErrUnrecognizedFormat]

\* DetectFormatByMagicNumber without its length check: a short buffer falls through
\* the prefix tests and ends unrecognized
DetectFormat_NoLengthCheck(data) ==
    IF HasPrefix(data, magicNumbers(WEBM)) THEN [format |-> WEBM, err |-> NoError]
    ELSE IF /\ HasPrefix(data, magicNumbers(AVI))
            /\ Len(data) >= 12
            /\ BytesEqual(Slice(data, 8, 12), AviMarker)
         THEN [format |-> AVI, err |-> NoError]
    ELSE IF Len(data) >= 12 /\ BytesEqual(Slice(data, 4, 8), magicNumbers(MP4))
         THEN LET brand == Slice(data, 8, 12)
              IN IF \E b \in mp4Brands : BytesEqual(brand, b)
                 THEN [format |-> MP4, err |-> NoError]
                 ELSE IF \E b \in movBrands : BytesEqual(brand, b)
                 THEN [format |-> MOV, err |-> NoError]
                 ELSE [format |-> <<>>, err |-> ErrUnrecognizedFormat]
    ELSE [format |-> <<>>, err |-> ErrUnrecognizedFormat]

\* DetectFormatByMagicNumber reading the "AVI " marker from the buffer's last four
\* bytes instead of data[8:12]
DetectFormat_MarkerAtEnd(data) ==
    IF Len(data) < 4 THEN [format |-> <<>>, err |-> ErrIncompleteHeader]
    ELSE IF HasPrefix(data, magicNumbers(WEBM)) THEN [format |-> WEBM, err |-> NoError]
    ELSE IF /\ HasPrefix(data, magicNumbers(AVI))
            /\ Len(data) >= 12
            /\ BytesEqual(Slice(data, Len(data) - 4, Len(data)), AviMarker)
         THEN [format |-> AVI, err |-> NoError]
    ELSE IF Len(data) >= 12 /\ BytesEqual(Slice(data, 4, 8), magicNumbers(MP4))
         THEN LET brand == Slice(data, 8, 12)
              IN IF \E b \in mp4Brands : BytesEqual(brand, b)
                 THEN [format |-> MP4, err |-> NoError]
                 ELSE IF \E b \in movBrands : BytesEqual(brand, b)
                 THEN [format |-> MOV, err |-> NoError]
                 ELSE [format |-> <<>>, err |-> ErrUnrecognizedFormat]
    ELSE [format |-> <<>>, err |-> ErrUnrecognizedFormat]

\* DetectFormatByMagicNumber: (format, err)
DetectFormatByMagicNumber(data) ==
    IF Len(data) < 4 THEN [format |-> <<>>, err |-> ErrIncompleteHeader]
    ELSE IF HasPrefix(data, magicNumbers(WEBM)) THEN [format |-> WEBM, err |-> NoError]
    ELSE IF /\ HasPrefix(data, magicNumbers(AVI))
            /\ Len(data) >= 12
            /\ BytesEqual(Slice(data, 8, 12), AviMarker)
         THEN [format |-> AVI, err |-> NoError]
    ELSE IF Len(data) >= 12 /\ BytesEqual(Slice(data, 4, 8), magicNumbers(MP4))
         THEN LET brand == Slice(data, 8, 12)
              IN IF \E b \in mp4Brands : BytesEqual(brand, b)
                 THEN [format |-> MP4, err |-> NoError]
                 ELSE IF \E b \in movBrands : BytesEqual(brand, b)
                 THEN [format |-> MOV, err |-> NoError]
                 ELSE [format |-> <<>>, err |-> ErrUnrecognizedFormat]
    ELSE [format |-> <<>>, err |-> ErrUnrecognizedFormat]

\* a nil *ValidationResult
NilResult ==
    [nil |-> TRUE, IsValid |-> FALSE, DetectedFormat |-> <<>>, HasErrorMessage |-> FALSE]

\* DetectFormatByMagicNumber was not called
NotRun == [format |-> <<>>, err |-> "not called"]

ValidationResult(isValid, detected, hasMessage) ==
    [nil |-> FALSE, IsValid |-> isValid, DetectedFormat |-> detected,
     HasErrorMessage |-> hasMessage]

\* ValidateFormat without the comparison of the extension with the detected format
ValidateFormat_NoMatch(request) ==
    LET ext == FileExtension(request.Filename)
        det == DetectFormatByMagicNumber(request.Data)
    IN IF request.Filename = <<>>
       THEN [result |-> NilResult, err |-> ErrEmptyFilename, steps |-> <<"filename">>,
             detected |-> NotRun]
       ELSE IF Len(request.Data) = 0
       THEN [result |-> NilResult, err |-> ErrEmptyContent,
             steps |-> <<"filename", "empty">>, detected |-> NotRun]
       ELSE IF Len(request.Data) < 4
       THEN [result |-> NilResult, err |-> ErrIncompleteHeader,
             steps |-> <<"filename", "empty", "header">>, detected |-> NotRun]
       ELSE IF ~IsFormatSupported(ext)
       THEN [result |-> NilResult, err |-> ErrUnsupportedFormat,
             steps |-> <<"filename", "empty", "header", "extension">>,
             detected |-> NotRun]
       ELSE IF det.err # NoError
       THEN [result |-> ValidationResult(FALSE, <<>>, TRUE), err |-> NoError,
             steps |-> <<"filename", "empty", "header", "extension", "detect">>,
             detected |-> det]
       ELSE [result |-> ValidationResult(TRUE, det.format, FALSE), err |-> NoError,
             steps |-> <<"filename", "empty", "header", "extension", "detect">>,
             detected |-> det]

\* ValidateFormat sniffing the bytes before it looks at the extension
ValidateFormat_DetectFirst(request) ==
    LET ext == FileExtension(request.Filename)
        det == DetectFormatByMagicNumber(request.Data)
    IN IF request.Filename = <<>>
       THEN [result |-> NilResult, err |-> ErrEmptyFilename, steps |-> <<"filename">>,
             detected |-> NotRun]
       ELSE IF Len(request.Data) = 0
       THEN [result |-> NilResult, err |-> ErrEmptyContent,
             steps |-> <<"filename", "empty">>, detected |-> NotRun]
       ELSE IF Len(request.Data) < 4
       THEN [result |-> NilResult, err |-> ErrIncompleteHeader,
             steps |-> <<"filename", "empty", "header">>, detected |-> NotRun]
       ELSE IF det.err # NoError
       THEN [result |-> ValidationResult(FALSE, <<>>, TRUE), err |-> NoError,
             steps |-> <<"filename", "empty", "header", "detect">>,
             detected |-> det]
       ELSE IF ~IsFormatSupported(ext)
       THEN [result |-> NilResult, err |-> ErrUnsupportedFormat,
             steps |-> <<"filename", "empty", "header", "detect", "extension">>,
             detected |-> det]
       ELSE IF ext # det.format
       THEN [result |-> NilResult, err |-> ErrFormatMismatch,
             steps |-> <<"filename", "empty", "header", "detect", "extension", "match">>,
             detected |-> det]
       ELSE [result |-> ValidationResult(TRUE, det.format, FALSE), err |-> NoError,
             steps |-> <<"filename", "empty", "header", "detect", "extension", "match">>,
             detected |-> det]

\* ValidateFormat refusing a request that declares no content type
ValidateFormat_NeedsContentType(request) ==
    LET ext == FileExtension(request.Filename)
        det == DetectFormatByMagicNumber(request.Data)
    IN IF request.Filename = <<>> \/ request.ContentType = ""
       THEN [result |-> NilResult, err |-> ErrEmptyFilename, steps |-> <<"filename">>,
             detected |-> NotRun]
       ELSE IF Len(request.Data) = 0
       THEN [result |-> NilResult, err |-> ErrEmptyContent,
             steps |-> <<"filename", "empty">>, detected |-> NotRun]
       ELSE IF Len(request.Data) < 4
       THEN [result |-> NilResult, err |-> ErrIncompleteHeader,
             steps |-> <<"filename", "empty", "header">>, detected |-> NotRun]
       ELSE IF ~IsFormatSupported(ext)
       THEN [result |-> NilResult, err |-> ErrUnsupportedFormat,
             steps |-> <<"filename", "empty", "header", "extension">>,
             detected |-> NotRun]
       ELSE IF det.err # NoError
       THEN [result |-> ValidationResult(FALSE, <<>>, TRUE), err |-> NoError,
             steps |-> <<"filename", "empty", "header", "extension", "detect">>,
             detected |-> det]
       ELSE IF ext # det.format
       THEN [result |-> NilResult, err |-> ErrFormatMismatch,
             steps |-> <<"filename", "empty", "header", "extension", "detect", "match">>,
             detected |-> det]
       ELSE [result |-> ValidationResult(TRUE, det.format, FALSE), err |-> NoError,
             steps |-> <<"filename", "empty", "header", "extension", "detect", "match">>,
             detected |-> det]

\* ValidateFormat: (result, err).  steps lists the checks the call went through, in
\* order; detected is what DetectFormatByMagicNumber returned when the call ran it.
ValidateFormat(request) ==
    LET ext == FileExtension(request.Filename)
        det == DetectFormatByMagicNumber(request.Data)
    IN IF request.Filename = <<>>
       THEN [result |-> NilResult, err |-> ErrEmptyFilename, steps |-> <<"filename">>,
             detected |-> NotRun]
       ELSE IF Len(request.Data) = 0
       THEN [result |-> NilResult, err |-> ErrEmptyContent,
             steps |-> <<"filename", "empty">>, detected |-> NotRun]
       ELSE IF Len(request.Data) < 4
       THEN [result |-> NilResult, err |-> ErrIncompleteHeader,
             steps |-> <<"filename", "empty", "header">>, detected |-> NotRun]
       ELSE IF ~IsFormatSupported(ext)
       THEN [result |-> NilResult, err |-> ErrUnsupportedFormat,
             steps |-> <<"filename", "empty", "header", "extension">>,
             detected |-> NotRun]
       ELSE IF det.err # NoError
       THEN [result |-> ValidationResult(FALSE, <<>>, TRUE), err |-> NoError,
             steps |-> <<"filename", "empty", "header", "extension", "detect">>,
             detected |-> det]
       ELSE IF ext # det.format
       THEN [result |-> NilResult, err |-> ErrFormatMismatch,
             steps |-> <<"filename", "empty", "header", "extension", "detect", "match">>,
             detected |-> det]
       ELSE [result |-> ValidationResult(TRUE, det.format, FALSE), err |-> NoError,
             steps |-> <<"filename", "empty", "header", "extension", "detect", "match">>,
             detected |-> det]

ErrEmptyContentType       == "EmptyContentType"         \* "内容类型不能为空"
ErrUnsupportedContentType == "UnsupportedContentType"   \* "不支持的内容类型: %s"

\* contentTypeMapping, as initContentTypeMapping fills it
contentTypeMapping ==
    [contentType \in {"video/mp4", "video/webm", "video/avi", "video/x-msvideo",
                      "video/quicktime"} |->
        CASE contentType = "video/mp4" -> MP4
          [] contentType = "video/webm" -> WEBM
          [] contentType \in {"video/avi", "video/x-msvideo"} -> AVI
          [] contentType = "video/quicktime" -> MOV]

\* ValidateContentType looking the content type up as "video/" and a supported format
ValidateContentType_BySupportedFormat(contentType) ==
    IF contentType = "" THEN ErrEmptyContentType
    ELSE IF contentType \notin {"video/mp4", "video/webm", "video/avi", "video/mov"}
    THEN ErrUnsupportedContentType
    ELSE NoError

\* ValidateContentType: the error
ValidateContentType(contentType) ==
    IF contentType = "" THEN ErrEmptyContentType
    ELSE IF contentType \notin DOMAIN contentTypeMapping THEN ErrUnsupportedContentType
    ELSE NoError

\* NewVideoValidator: maxFileSize, 2 * 1024 * 1024 * 1024
ValidatorMaxFileSize == <<0, 0, 0, 128, 0, 0, 0, 0>>

\* VideoValidator.ValidateFileSize: the error
ValidatorFileSize(size) ==
    IF I64Negative(size) THEN "InvalidFileSize"            \* "文件大小无效"
    ELSE IF WIsZero(size) THEN "EmptyFile"                 \* "文件不能为空"
    ELSE IF I64Less(ValidatorMaxFileSize, size) THEN "FileSizeOverLimit"
    ELSE NoError

\* ComprehensiveValidation
ComprehensiveValidation(request) ==
    LET sizeErr == ValidatorFileSize(request.Size)
        typeErr == ValidateContentType(request.ContentType)
        formatRequest == [Filename |-> request.Filename,
                          ContentType |-> request.ContentType, Data |-> request.Data]
        checked == ValidateFormat(formatRequest)
        formatErr == IF checked.err # NoError THEN checked.err
                     ELSE IF ~checked.result.IsValid THEN checked.detected.err
                     ELSE NoError
    IN [result |->
          [IsValid |-> sizeErr = NoError /\ typeErr = NoError /\ formatErr = NoError,
           DetectedFormat |-> IF formatErr = NoError THEN checked.result.DetectedFormat
                              ELSE <<>>,
           FormatValid |-> formatErr = NoError,
           SizeValid |-> sizeErr = NoError,
           ContentTypeValid |-> typeErr = NoError,
           Errors |-> SelectSeq(<<sizeErr, typeErr, formatErr>>, LAMBDA x : x # NoError)],
        err |-> NoError]

-----------------------------------------------------------------------------
(* VideoInfoExtractor *)

\* time.Second, in nanoseconds
Second == WFromInt(1000000000, 8)

\* a float64 frame rate, kept as the quotient num / den it was computed from;
\* den is a uint32
FrameRateZero == [num |-> 0, den |-> WFromInt(1, 4)]

FrameRatePositive(f) == f.num > 0 /\ ~WIsZero(f.den)

\* &VideoInfo{Filename, Format, FileSize}: every other field at its zero value.
\* panic is not a field of the struct: it records that a slice expression or an index
\* of the call was out of range, which ends the call in a run-time panic.
VideoInfo(filename, format, size) ==
    [Filename |-> filename, Format |-> format, FileSize |-> I64(size),
     Duration |-> WZero(8), Width |-> WZero(8), Height |-> WZero(8),
     Bitrate |-> WZero(8), FrameRate |-> FrameRateZero,
     VideoCodec |-> "", AudioCodec |-> "", panic |-> FALSE]

Panic(info) == [info EXCEPT !.panic = TRUE]

\* extractMovieHeader taking every box that holds its 8-byte header for a full one
extractMovieHeader_NoLengthCheck(boxData, info) ==
    IF Len(boxData) < 8 THEN info
    ELSE LET offset == 12
         IN IF ~SliceOK(boxData, offset + 8, offset + 12)
               \/ ~SliceOK(boxData, offset + 12, offset + 16)
            THEN Panic(info)
            ELSE LET timeScale == BigEndianUint32(Slice(boxData, offset + 8, offset + 12))
                     duration  == BigEndianUint32(Slice(boxData, offset + 12, offset + 16))
                 IN IF ~WIsZero(timeScale)
                    THEN [info EXCEPT !.Duration =
                             WDiv(WMul(I64OfU32(duration), Second, 8), timeScale)]
                    ELSE info

\* extractMovieHeader dividing before it scales to nanoseconds
extractMovieHeader_WholeSeconds(boxData, info) ==
    IF Len(boxData) < 32 THEN info
    ELSE LET offset == 12
         IN IF ~SliceOK(boxData, offset + 8, offset + 12)
               \/ ~SliceOK(boxData, offset + 12, offset + 16)
            THEN Panic(info)
            ELSE LET timeScale == BigEndianUint32(Slice(boxData, offset + 8, offset + 12))
                     duration  == BigEndianUint32(Slice(boxData, offset + 12, offset + 16))
                 IN IF ~WIsZero(timeScale)
                    THEN [info EXCEPT !.Duration =
                             WMul(WDiv(I64OfU32(duration), timeScale), Second, 8)]
                    ELSE info

\* extractMovieHeader
extractMovieHeader(boxData, info) ==
    IF Len(boxData) < 32 THEN info
    ELSE LET offset == 12
         IN IF ~SliceOK(boxData, offset + 8, offset + 12)
               \/ ~SliceOK(boxData, offset + 12, offset + 16)
            THEN Panic(info)
            ELSE LET timeScale == BigEndianUint32(Slice(boxData, offset + 8, offset + 12))
                     duration  == BigEndianUint32(Slice(boxData, offset + 12, offset + 16))
                 IN IF ~WIsZero(timeScale)
                    THEN [info EXCEPT !.Duration =
                             WDiv(WMul(I64OfU32(duration), Second, 8), timeScale)]
                    ELSE info

\* extractTrackHeader
extractTrackHeader(boxData, info) ==
    IF Len(boxData) < 92 THEN info
    ELSE IF ~SliceOK(boxData, Len(boxData) - 8, Len(boxData) - 4)
            \/ ~SliceOK(boxData, Len(boxData) - 4, Len(boxData))
    THEN Panic(info)
    ELSE LET widthFixed  == BigEndianUint32(Slice(boxData, Len(boxData) - 8, Len(boxData) - 4))
             heightFixed == BigEndianUint32(Slice(boxData, Len(boxData) - 4, Len(boxData)))
         IN [info EXCEPT !.Width  = I64OfU32(<<widthFixed[3], widthFixed[4]>>),
                         !.Height = I64OfU32(<<heightFixed[3], heightFixed[4]>>)]

\* extractSampleDescription
extractSampleDescription(boxData, info) ==
    IF Len(boxData) < 16 THEN info
    ELSE LET video == IF BytesContains(boxData, <<97, 118, 99, 49>>)         \* "avc1"
                      THEN [info EXCEPT !.VideoCodec = "H.264"]
                      ELSE IF BytesContains(boxData, <<104, 118, 99, 49>>)   \* "hvc1"
                      THEN [info EXCEPT !.VideoCodec = "H.265"]
                      ELSE info
         IN IF BytesContains(boxData, <<109, 112, 52, 97>>)                  \* "mp4a"
            THEN [video EXCEPT !.AudioCodec = "AAC"]
            ELSE video

RECURSIVE MP4Walk_NoSizeCheck(_, _, _)
\* the loop of extractMP4Info trusting every non-zero size field
MP4Walk_NoSizeCheck(data, offset, info) ==
    IF ~(offset < Len(data) - 8) THEN info
    ELSE IF offset + 8 > Len(data) THEN info
    ELSE IF ~SliceOK(data, offset, offset + 4) \/ ~SliceOK(data, offset + 4, offset + 8)
    THEN Panic(info)
    ELSE LET boxSize == BigEndianUint32(Slice(data, offset, offset + 4))
             boxType == Slice(data, offset + 4, offset + 8)
         IN IF WIsZero(boxSize)
            THEN info
            ELSE IF WLess(WFromInt(Len(data) - offset, 4), boxSize) THEN Panic(info)
            ELSE LET size == WToInt(boxSize)
                     box == Slice(data, offset, offset + size)
                     after ==
                         CASE boxType = <<109, 118, 104, 100>> ->
                                  extractMovieHeader(box, info)
                           [] boxType = <<116, 107, 104, 100>> ->
                                  extractTrackHeader(box, info)
                           [] boxType = <<115, 116, 115, 100>> ->
                                  extractSampleDescription(box, info)
                           [] OTHER -> info
                 IN IF after.panic THEN after
                    ELSE MP4Walk_NoSizeCheck(data, offset + size, after)

RECURSIVE MP4Walk(_, _, _)
\* the loop of extractMP4Info, from box offset `offset`
MP4Walk(data, offset, info) ==
    IF ~(offset < Len(data) - 8) THEN info
    ELSE IF offset + 8 > Len(data) THEN info
    ELSE IF ~SliceOK(data, offset, offset + 4) \/ ~SliceOK(data, offset + 4, offset + 8)
    THEN Panic(info)
    ELSE LET boxSize == BigEndianUint32(Slice(data, offset, offset + 4))
             boxType == Slice(data, offset + 4, offset + 8)
         IN IF WIsZero(boxSize) \/ WLess(WFromInt(Len(data) - offset, 4), boxSize)
            THEN info
            ELSE LET size == WToInt(boxSize)
                     known == boxType \in { <<109, 118, 104, 100>>,      \* "mvhd"
                                            <<116, 107, 104, 100>>,      \* "tkhd"
                                            <<115, 116, 115, 100>> }     \* "stsd"
                 IN IF known /\ ~SliceOK(data, offset, offset + size)
                    THEN Panic(info)
                    ELSE LET box == Slice(data, offset, offset + size)
                             after ==
                                 CASE boxType = <<109, 118, 104, 100>> ->
                                          extractMovieHeader(box, info)
                                   [] boxType = <<116, 107, 104, 100>> ->
                                          extractTrackHeader(box, info)
                                   [] boxType = <<115, 116, 115, 100>> ->
                                          extractSampleDescription(box, info)
                                   [] OTHER -> info
                         IN IF after.panic THEN after
                            ELSE MP4Walk(data, offset + size, after)

\* extractMP4Info
extractMP4Info(data, info) == MP4Walk(data, 0, info)

RECURSIVE MP4Steps(_, _)
\* the iterations of the loop of extractMP4Info from box offset `offset`: the offset
\* each one starts at, the size field it reads there and whether it breaks
MP4Steps(data, offset) ==
    IF ~(offset < Len(data) - 8) THEN <<>>
    ELSE IF offset + 8 > Len(data) THEN <<>>
    ELSE LET boxSize == BigEndianUint32(Slice(data, offset, offset + 4))
             stops == WIsZero(boxSize) \/ WLess(WFromInt(Len(data) - offset, 4), boxSize)
             step == [offset |-> offset, boxSize |-> boxSize, stops |-> stops]
         IN IF stops THEN <<step>>
            ELSE <<step>> \o MP4Steps(data, offset + WToInt(boxSize))

\* extractAVIInfo.  float64(totalFrames)/info.FrameRate is the exact quotient
\* totalFrames * microSecPerFrame / 1000000, cut to whole seconds by time.Duration();
\* the doubles give this value whenever 1000000 / microSecPerFrame is a double
\* (40000, 1000000, 4000000 are such) and the quotient's fraction is not within
\* rounding of 1.
extractAVIInfo(data, info) ==
    LET avihPos == BytesIndex(data, <<97, 118, 105, 104>>)               \* "avih"
    IN IF avihPos # -1 /\ avihPos + 56 <= Len(data)
       THEN IF ~SliceOK(data, avihPos + 8, avihPos + 56)
            THEN Panic(info)
            ELSE LET headerData == Slice(data, avihPos + 8, avihPos + 56)
                 IN IF \E r \in {<<0, 4>>, <<16, 20>>, <<32, 36>>, <<36, 40>>} :
                           ~SliceOK(headerData, r[1], r[2])
                    THEN Panic(info)
                    ELSE LET microSecPerFrame ==
                                 LittleEndianUint32(Slice(headerData, 0, 4))
                             rate == IF ~WIsZero(microSecPerFrame)
                                     THEN [info EXCEPT !.FrameRate =
                                              [num |-> 1000000, den |-> microSecPerFrame]]
                                     ELSE info
                             totalFrames == LittleEndianUint32(Slice(headerData, 16, 20))
                             timed ==
                                 IF ~WIsZero(totalFrames) /\ FrameRatePositive(rate.FrameRate)
                                 THEN [rate EXCEPT !.Duration =
                                          WMul(WDivSmall(WMul(I64OfU32(totalFrames),
                                                              rate.FrameRate.den, 8),
                                                         rate.FrameRate.num),
                                               Second, 8)]
                                 ELSE rate
                         IN [timed EXCEPT
                               !.Width  = I64OfU32(LittleEndianUint32(Slice(headerData, 32, 36))),
                               !.Height = I64OfU32(LittleEndianUint32(Slice(headerData, 36, 40)))]
       ELSE info

\* findWebMElement
findWebMElement(data, elementID) == BytesIndex(data, elementID)

\* extractWebMInfo taking the width from the two bytes behind the PixelWidth's size
extractWebMInfo_ReadsWidth(data, info) ==
    LET pos == findWebMElement(data, <<176>>)
    IN IF pos # -1 /\ pos + 4 <= Len(data)
       THEN [info EXCEPT !.Width = I64OfU32(<<data[pos + 4], data[pos + 3], 0, 0>>)]
       ELSE info

\* extractWebMInfo
extractWebMInfo(data, info) ==
    LET d == IF findWebMElement(data, <<68, 137>>) # -1              \* Duration
             THEN [info EXCEPT !.Duration = WZero(8)] ELSE info
        w == IF findWebMElement(data, <<176>>) # -1                  \* PixelWidth
             THEN [d EXCEPT !.Width = WZero(8)] ELSE d
    IN IF findWebMElement(data, <<186>>) # -1                        \* PixelHeight
       THEN [w EXCEPT !.Height = WZero(8)] ELSE w

\* extractDetailedInfo
extractDetailedInfo(data, format, info) ==
    CASE format \in {MP4, MOV} -> extractMP4Info(data, info)
      [] format = AVI -> extractAVIInfo(data, info)
      [] format = WEBM -> extractWebMInfo(data, info)
      [] OTHER -> info

\* a nil *VideoInfo
NilInfo == [nil |-> TRUE]

\* ExtractInfo: (info, err).  formatDisplayInfo, which only prints the fields into
\* the three display strings, is left out.
ExtractInfo(request) ==
    IF Len(request.Data) = 0 THEN [info |-> NilInfo, err |-> ErrEmptyData]
    ELSE IF Len(request.Data) < 12 THEN [info |-> NilInfo, err |-> ErrIncompleteHeader]
    ELSE LET det == DetectFormatByMagicNumber(request.Data)
         IN IF det.err # NoError THEN [info |-> NilInfo, err |-> ErrUnrecognizedFormat]
            ELSE [info |-> extractDetailedInfo(request.Data, det.format,
                              VideoInfo(request.Filename, det.format, Len(request.Data))),
                  err |-> NoError]

\* the body ExtractDuration, ExtractResolution, ExtractBitrate and ExtractFrameRate
\* share: (info, err), of which each returns its fields
ExtractFields(data) ==
    IF Len(data) < 12 THEN [info |-> NilInfo, err |-> ErrTooShort]
    ELSE LET det == DetectFormatByMagicNumber(data)
         IN IF det.err # NoError THEN [info |-> NilInfo, err |-> det.err]
            ELSE [info |-> extractDetailedInfo(data, det.format, VideoInfo(<<>>, <<>>, 0)),
                  err |-> NoError]

\* ExtractDuration: (duration, err)
ExtractDuration(data) ==
    LET r == ExtractFields(data)
    IN IF r.err # NoError THEN [value |-> WZero(8), err |-> r.err, panic |-> FALSE]
       ELSE [value |-> r.info.Duration, err |-> NoError, panic |-> r.info.panic]

\* ExtractResolution: (width, height, err)
ExtractResolution(data) ==
    LET r == ExtractFields(data)
    IN IF r.err # NoError
       THEN [width |-> WZero(8), height |-> WZero(8), err |-> r.err, panic |-> FALSE]
       ELSE [width |-> r.info.Width, height |-> r.info.Height, err |-> NoError,
             panic |-> r.info.panic]

\* ExtractBitrate: (bitrate, err)
ExtractBitrate(data) ==
    LET r == ExtractFields(data)
    IN IF r.err # NoError THEN [value |-> WZero(8), err |-> r.err, panic |-> FALSE]
       ELSE [value |-> r.info.Bitrate, err |-> NoError, panic |-> r.info.panic]

\* ExtractFrameRate: (frame rate, err)
ExtractFrameRate(data) ==
    LET r == ExtractFields(data)
    IN IF r.err # NoError THEN [value |-> FrameRateZero, err |-> r.err, panic |-> FALSE]
       ELSE [value |-> r.info.FrameRate, err |-> NoError, panic |-> r.info.panic]

-----------------------------------------------------------------------------
(* SizeLimitManager *)

\* 2 * 1024 * 1024 * 1024
DefaultMaxFileSize == <<0, 0, 0, 128, 0, 0, 0, 0>>

DefaultMinFileSize == I64(1)

\* make(map[string]int64)
EmptyLimits == [f \in {} |-> WZero(8)]

I64Positive(x) == I64Less(WZero(8), x)

\* SetMaxFileSize: the new maxFileSize
SetMaxFileSize(max, size) == IF I64Positive(size) THEN size ELSE max

\* SetMinFileSize: the new minFileSize
SetMinFileSize(min, size) == IF I64Leq(WZero(8), size) THEN size ELSE min

\* SetFormatLimits copying every entry of the map it is given
SetFormatLimits_KeepsAll(limits) == [f \in DOMAIN limits |-> limits[f]]

\* SetFormatLimits: the new formatLimits
SetFormatLimits(limits) ==
    [f \in {g \in DOMAIN limits : I64Positive(limits[g])} |-> limits[f]]

\* the error UpdateLimits returns for limits
ErrMaxNotPositive == "MaxNotPositive"    \* "最大文件大小必须大于0"
ErrMinNegative    == "MinNegative"       \* "最小文件大小不能小于0"
ErrMinNotBelowMax == "MinNotBelowMax"    \* "最小文件大小不能大于或等于最大文件大小"

UpdateLimitsCheck(limits) ==
    IF I64Leq(limits.MaxFileSize, WZero(8)) THEN ErrMaxNotPositive
    ELSE IF I64Negative(limits.MinFileSize) THEN ErrMinNegative
    ELSE IF I64Leq(limits.MaxFileSize, limits.MinFileSize) THEN ErrMinNotBelowMax
    ELSE NoError

\* 2^e in k digits
Pow2(e, k) == SubSeq([i \in 1..k |-> IF i = (e \div 8) + 1 THEN 2 ^ (e % 8) ELSE 0], 1, k)

DigitChar(d) == <<"0", "1", "2", "3", "4", "5", "6", "7", "8", "9">>[d + 1]

\* %d of n, 0 <= n < 10000
DecimalSmall(n) ==
    IF n >= 1000 THEN <<DigitChar(n \div 1000), DigitChar((n \div 100) % 10),
                        DigitChar((n \div 10) % 10), DigitChar(n % 10)>>
    ELSE IF n >= 100 THEN <<DigitChar(n \div 100), DigitChar((n \div 10) % 10),
                            DigitChar(n % 10)>>
    ELSE IF n >= 10 THEN <<DigitChar(n \div 10), DigitChar(n % 10)>>
    ELSE <<DigitChar(n)>>

RECURSIVE Decimal(_)
\* %d of an unsigned value, four decimal digits at a time
Decimal(w) ==
    LET step == WDivSmallFrom(w, 10000, 1)
    IN IF WIsZero(step.q) THEN DecimalSmall(step.rem)
       ELSE Decimal(step.q)
               \o <<DigitChar(step.rem \div 1000), DigitChar((step.rem \div 100) % 10),
                    DigitChar((step.rem \div 10) % 10), DigitChar(step.rem % 10)>>

\* %d of an int64
DecimalI64(x) ==
    IF I64Negative(x) THEN <<"-">> \o Decimal(WSub(WZero(8), x, 8)) ELSE Decimal(x)

\* floor(w / 2^e): digit i takes the high bits of digit i + e \div 8 and the low
\* bits of the digit above it
WShiftRight(w, e) ==
    LET n == e \div 8
        s == e % 8
        x == w \o WZero(n + 1)
    IN SubSeq([i \in 1..Len(w) |->
                  (x[i + n] \div (2 ^ s)) + (x[i + n + 1] % (2 ^ s)) * (2 ^ (8 - s))],
              1, Len(w))

\* w * 2^e modulo 256^Len(w)
WShiftLeft(w, e) ==
    LET n == e \div 8
        s == e % 8
        y == WZero(n + 1) \o w
    IN SubSeq([i \in 1..Len(w) |->
                  ((y[i + 1] * (2 ^ s)) % 256) + (y[i] \div (2 ^ (8 - s)))],
              1, Len(w))

\* w mod 2^e
WLowBits(w, e) ==
    WResize(SubSeq(w, 1, e \div 8)
              \o (IF e \div 8 < Len(w) THEN <<w[(e \div 8) + 1] % (2 ^ (e % 8))>> ELSE <<>>),
            Len(w))

\* m / 2^e rounded to the nearest integer, ties to even
RoundShift(m, e) ==
    LET q == WShiftRight(m, e)
        twice == WMulSmall(WLowBits(m, e), 2, Len(m))
        unit == Pow2(e, Len(m))
        up == WLess(unit, twice) \/ (twice = unit /\ q[1] % 2 = 1)
    IN IF up THEN WAdd(q, WFromInt(1, Len(m)), Len(m)) ELSE q

\* how many low bits of a non-negative int64 fall outside a float64's 53
Float64Shift(x) ==
    CHOOSE s \in 0..10 :
        /\ WLess(x, Pow2(53 + s, 9))
        /\ s > 0 => WLeq(Pow2(52 + s, 9), x)

\* float64(x) of a non-negative int64 x, as the integer it is: x rounded to 53
\* significant bits, ties to even
Float64Of(x) ==
    LET s == Float64Shift(x)
    IN WShiftLeft(RoundShift(WResize(x, 9), s), s)

\* the hundredths that %.2f prints for the float64 m / 2^e: the nearest, ties to even
Hundredths(m, e) == RoundShift(WMulSmall(m, 100, 10), e)

\* fmt.Sprintf("%.2f", float64(size) / 2^e)
SprintfFloat2(size, e) ==
    LET h == Hundredths(Float64Of(size), e)
        cents == WModSmall(h, 100)
    IN Decimal(WDivSmall(h, 100)) \o <<".", DigitChar(cents \div 10), DigitChar(cents % 10)>>

KB == I64(1024)
MB == I64(1024 * 1024)
GB == I64(1024 * 1024 * 1024)
TB == WResize(Pow2(40, 8), 8)

\* FormatSize with size > unit in the place of size >= unit
FormatSize_Exclusive(size) ==
    IF I64Less(TB, size) THEN SprintfFloat2(size, 40) \o <<" ", "T", "B">>
    ELSE IF I64Less(GB, size) THEN SprintfFloat2(size, 30) \o <<" ", "G", "B">>
    ELSE IF I64Less(MB, size) THEN SprintfFloat2(size, 20) \o <<" ", "M", "B">>
    ELSE IF I64Less(KB, size) THEN SprintfFloat2(size, 10) \o <<" ", "K", "B">>
    ELSE DecimalI64(size) \o <<" ", "B">>

FormatSize(size) ==
    IF I64Leq(TB, size) THEN SprintfFloat2(size, 40) \o <<" ", "T", "B">>
    ELSE IF I64Leq(GB, size) THEN SprintfFloat2(size, 30) \o <<" ", "G", "B">>
    ELSE IF I64Leq(MB, size) THEN SprintfFloat2(size, 20) \o <<" ", "M", "B">>
    ELSE IF I64Leq(KB, size) THEN SprintfFloat2(size, 10) \o <<" ", "K", "B">>
    ELSE DecimalI64(size) \o <<" ", "B">>

ErrNegativeSize  == "NegativeSize"     \* "文件大小无效：%d"
ErrEmptySize     == "EmptySize"        \* "文件不能为空"
ErrTooLarge      == "TooLarge"         \* "文件大小超过限制，最大允许 %s，当前文件 %s"
ErrBatchTooLarge == "BatchTooLarge"    \* "批量上传总大小超过限制，最大允许 %s，当前总大小 %s"

\* an error of the manager with the arguments of its message; a nil error has none
SizeError(err, format, limit, size) ==
    [err |-> err, format |-> format, limit |-> limit, size |-> size]

SizeOK == SizeError(NoError, <<>>, <<>>, <<>>)

\* ValidateSize with size >= s.maxFileSize in the place of size > s.maxFileSize
ValidateSize_Exclusive(min, max, size) ==
    IF I64Negative(size) THEN SizeError(ErrNegativeSize, <<>>, <<>>, DecimalI64(size))
    ELSE IF I64Less(size, min) THEN SizeError(ErrEmptySize, <<>>, <<>>, <<>>)
    ELSE IF I64Leq(max, size)
         THEN SizeError(ErrTooLarge, <<>>, FormatSize(max), FormatSize(size))
    ELSE SizeOK

\* ValidateSize on a manager with the limits min and max
ValidateSize(min, max, size) ==
    IF I64Negative(size) THEN SizeError(ErrNegativeSize, <<>>, <<>>, DecimalI64(size))
    ELSE IF I64Less(size, min) THEN SizeError(ErrEmptySize, <<>>, <<>>, <<>>)
    ELSE IF I64Less(max, size)
         THEN SizeError(ErrTooLarge, <<>>, FormatSize(max), FormatSize(size))
    ELSE SizeOK

\* ValidateSizeForFormat comparing with the global limit as well as the format's
ValidateSizeForFormat_AlsoGlobal(min, max, limits, format, size) ==
    IF I64Negative(size) THEN SizeError(ErrNegativeSize, <<>>, <<>>, DecimalI64(size))
    ELSE IF I64Less(size, min) THEN SizeError(ErrEmptySize, <<>>, <<>>, <<>>)
    ELSE IF format \in DOMAIN limits /\ I64Less(limits[format], size)
         THEN SizeError(ErrTooLarge, format, FormatSize(limits[format]), FormatSize(size))
    ELSE IF I64Less(max, size)
         THEN SizeError(ErrTooLarge, <<>>, FormatSize(max), FormatSize(size))
    ELSE SizeOK

ValidateSizeForFormat(min, max, limits, format, size) ==
    IF I64Negative(size) THEN SizeError(ErrNegativeSize, <<>>, <<>>, DecimalI64(size))
    ELSE IF I64Less(size, min) THEN SizeError(ErrEmptySize, <<>>, <<>>, <<>>)
    ELSE IF format \in DOMAIN limits
         THEN IF I64Less(limits[format], size)
              THEN SizeError(ErrTooLarge, format, FormatSize(limits[format]),
                             FormatSize(size))
              ELSE SizeOK
    ELSE IF I64Less(max, size)
         THEN SizeError(ErrTooLarge, <<>>, FormatSize(max), FormatSize(size))
    ELSE SizeOK

\* an error of ValidateBatchSizes: index is the i+1 of "文件 %d: %v", 0 without one
BatchError(index, e) ==
    [err |-> e.err, index |-> index, limit |-> e.limit, size |-> e.size]

RECURSIVE BatchWalk(_, _, _, _, _)
\* the loop of ValidateBatchSizes from element i on, then the check of the total
BatchWalk(min, max, sizes, i, totalSize) ==
    IF i > Len(sizes)
    THEN LET batchLimit == WMulSmall(max, 10, 8)
         IN IF I64Less(batchLimit, totalSize)
            THEN BatchError(0, SizeError(ErrBatchTooLarge, <<>>, FormatSize(batchLimit),
                                         FormatSize(totalSize)))
            ELSE BatchError(0, SizeOK)
    ELSE LET e == ValidateSize(min, max, sizes[i])
         IN IF e.err # NoError THEN BatchError(i, e)
            ELSE BatchWalk(min, max, sizes, i + 1, WAdd(totalSize, sizes[i], 8))

ValidateBatchSizes(min, max, sizes) == BatchWalk(min, max, sizes, 1, WZero(8))

-----------------------------------------------------------------------------
(* ThumbnailGenerator *)

\* a float64 time offset: a number of quarter seconds (exact in binary) or NaN
Float(n) == [nan |-> FALSE, quarters |-> n]

NaN == [nan |-> TRUE, quarters |-> 0]

\* x < y on float64: false when either is NaN
FloatLess(x, y) == ~x.nan /\ ~y.nan /\ x.quarters < y.quarters

\* fmt.Sprintf("%.1f", x): the nearest tenth, ties to even
SprintfFloat1(x) ==
    IF x.nan THEN <<"N", "a", "N">>
    ELSE LET a == IF x.quarters < 0 THEN -x.quarters ELSE x.quarters
             down == (5 * a) \div 2
             tenths == IF (5 * a) % 2 = 1 /\ down % 2 = 1 THEN down + 1 ELSE down
         IN (IF x.quarters < 0 THEN <<"-">> ELSE <<>>)
               \o DecimalSmall(tenths \div 10) \o <<".", DigitChar(tenths % 10)>>

\* the generator's fields, as the receiver g of its methods
Generator ==
    [maxWidth |-> maxWidth, maxHeight |-> maxHeight,
     minWidth |-> minWidth, minHeight |-> minHeight]

\* a nil *ThumbnailOptions, a nil *ThumbnailResult, a nil []*ThumbnailResult
NilOptions == [nil |-> "ThumbnailOptions"]
NilThumbnail == [nil |-> "ThumbnailResult"]
NilThumbnails == [nil |-> "[]ThumbnailResult"]

ErrNilOptions             == "NilOptions"              \* "选项不能为空"
ErrWidthOutOfRange        == "WidthOutOfRange"         \* "宽度必须在%d到%d之间"
ErrHeightOutOfRange       == "HeightOutOfRange"        \* "高度必须在%d到%d之间"
ErrUnsupportedImageFormat == "UnsupportedImageFormat"  \* "不支持的图片格式: %s，..."
ErrQualityOutOfRange      == "QualityOutOfRange"       \* "JPEG质量必须在1到100之间"
ErrNegativeOffset         == "NegativeOffset"          \* "时间偏移不能为负数"
ErrEmptyVideoData         == "EmptyVideoData"          \* "视频数据为空"
ErrUnrecognizedVideo      == "UnrecognizedVideo"       \* "无法识别的视频格式: %v"
ErrEmptyOffsets           == "EmptyOffsets"            \* "时间偏移列表不能为空"
ErrOffsetFailed           == "OffsetFailed"            \* "生成时间偏移 %.1fs 的缩略图失败: %v"
ErrUnsupportedOutput      == "UnsupportedOutput"       \* "不支持的输出格式: %s"

\* SetMaxDimensions, SetMinDimensions: the value a limit takes
SetDimension(old, new) == IF new > 0 THEN new ELSE old

\* GetDefaultOptions
GetDefaultOptions ==
    [Width |-> 320, Height |-> 240, Quality |-> 80, Format |-> "jpeg",
     TimeOffset |-> Float(0), KeepAspect |-> TRUE]

\* ValidateOptions: the error
ValidateOptions(g, options) ==
    IF options = NilOptions THEN ErrNilOptions
    ELSE IF options.Width < g.minWidth \/ options.Width > g.maxWidth
    THEN ErrWidthOutOfRange
    ELSE IF options.Height < g.minHeight \/ options.Height > g.maxHeight
    THEN ErrHeightOutOfRange
    ELSE IF options.Format \notin {"jpeg", "png"} THEN ErrUnsupportedImageFormat
    ELSE IF options.Format = "jpeg" /\ (options.Quality < 1 \/ options.Quality > 100)
    THEN ErrQualityOutOfRange
    ELSE IF FloatLess(options.TimeOffset, Float(0)) THEN ErrNegativeOffset
    ELSE NoError

\* what a call did to options, in the order it did it: validated them (with the
\* error), built the raster from them, encoded the raster with them
Validated(options, err) == [step |-> "ValidateOptions", options |-> options, err |-> err]
Drawn(options) == [step |-> "NewRGBA", options |-> options, err |-> NoError]
Encoded(options) == [step |-> "Encode", options |-> options, err |-> NoError]

\* the first bytes jpeg.Encode and png.Encode write
JpegSOI == <<255, 216>>
PngSignature == <<137, 80, 78, 71, 13, 10, 26, 10>>

\* &ThumbnailResult{...} of generateMockThumbnail and CreatePlaceholder from the
\* encoder's buffer
ThumbnailResult(buf, options) ==
    [ImageData |-> buf, Width |-> options.Width, Height |-> options.Height,
     Format |-> options.Format, FileSize |-> I64(Len(buf)),
     TimeOffset |-> options.TimeOffset]

\* generateMockThumbnail: (result, err) and its steps.  The raster and the encoders are
\* the standard library's: encoded is what the encoder writes after its first bytes.
generateMockThumbnail(videoData, options, format, encoded) ==
    CASE options.Format = "jpeg" ->
             [result |-> ThumbnailResult(JpegSOI \o encoded, options), err |-> NoError,
              cause |-> NoError, steps |-> <<Drawn(options), Encoded(options)>>]
      [] options.Format = "png" ->
             [result |-> ThumbnailResult(PngSignature \o encoded, options),
              err |-> NoError, cause |-> NoError,
              steps |-> <<Drawn(options), Encoded(options)>>]
      [] OTHER ->
             [result |-> NilThumbnail, err |-> ErrUnsupportedOutput, cause |-> NoError,
              steps |-> <<Drawn(options)>>]

\* GenerateFromVideo validating the options before it looks at the bytes' format
GenerateFromVideo_OptionsFirst(g, request, encoded) ==
    IF Len(request.VideoData) = 0
    THEN [result |-> NilThumbnail, err |-> ErrEmptyVideoData, cause |-> NoError,
          steps |-> <<>>]
    ELSE LET options == IF request.Options = NilOptions THEN GetDefaultOptions
                        ELSE request.Options
             err == ValidateOptions(g, options)
             det == DetectFormatByMagicNumber(request.VideoData)
         IN IF err # NoError
            THEN [result |-> NilThumbnail, err |-> err, cause |-> NoError,
                  steps |-> <<Validated(options, err)>>]
            ELSE IF det.err # NoError
            THEN [result |-> NilThumbnail, err |-> ErrUnrecognizedVideo,
                  cause |-> det.err, steps |-> <<Validated(options, err)>>]
            ELSE LET made == generateMockThumbnail(request.VideoData, options,
                                                   det.format, encoded)
                 IN [made EXCEPT !.steps = <<Validated(options, err)>> \o @]

\* GenerateFromVideo validating the options only after the thumbnail is made
GenerateFromVideo_ValidateLast(g, request, encoded) ==
    IF Len(request.VideoData) = 0
    THEN [result |-> NilThumbnail, err |-> ErrEmptyVideoData, cause |-> NoError,
          steps |-> <<>>]
    ELSE LET det == DetectFormatByMagicNumber(request.VideoData)
         IN IF det.err # NoError
            THEN [result |-> NilThumbnail, err |-> ErrUnrecognizedVideo,
                  cause |-> det.err, steps |-> <<>>]
            ELSE LET options == IF request.Options = NilOptions THEN GetDefaultOptions
                                ELSE request.Options
                     made == generateMockThumbnail(request.VideoData, options,
                                                   det.format, encoded)
                     err == ValidateOptions(g, options)
                 IN IF err # NoError
                    THEN [result |-> NilThumbnail, err |-> err, cause |-> NoError,
                          steps |-> made.steps \o <<Validated(options, err)>>]
                    ELSE [made EXCEPT !.steps = @ \o <<Validated(options, err)>>]

\* GenerateFromVideo: (result, err), the error under err, and its steps
GenerateFromVideo(g, request, encoded) ==
    IF Len(request.VideoData) = 0
    THEN [result |-> NilThumbnail, err |-> ErrEmptyVideoData, cause |-> NoError,
          steps |-> <<>>]
    ELSE LET det == DetectFormatByMagicNumber(request.VideoData)
         IN IF det.err # NoError
            THEN [result |-> NilThumbnail, err |-> ErrUnrecognizedVideo,
                  cause |-> det.err, steps |-> <<>>]
            ELSE LET options == IF request.Options = NilOptions THEN GetDefaultOptions
                                ELSE request.Options
                     err == ValidateOptions(g, options)
                 IN IF err # NoError
                    THEN [result |-> NilThumbnail, err |-> err, cause |-> NoError,
                          steps |-> <<Validated(options, err)>>]
                    ELSE LET made == generateMockThumbnail(request.VideoData, options,
                                                           det.format, encoded)
                         IN [made EXCEPT !.steps = <<Validated(options, err)>> \o @]

\* CreatePlaceholder: (result, err) and its steps; text is not drawn
CreatePlaceholder(g, options, text, encoded) ==
    LET err == ValidateOptions(g, options)
    IN IF err # NoError
       THEN [result |-> NilThumbnail, err |-> err, cause |-> NoError,
             steps |-> <<Validated(options, err)>>]
       ELSE [result |-> ThumbnailResult((CASE options.Format = "jpeg" -> JpegSOI \o encoded
                                           [] options.Format = "png" -> PngSignature \o encoded
                                           [] OTHER -> <<>>),
                                        options),
             err |-> NoError, cause |-> NoError,
             steps |-> <<Validated(options, err), Drawn(options), Encoded(options)>>]

\* the number of bits of a positive integer
WBitLen(w) ==
    LET top == CHOOSE i \in 1..Len(w) : w[i] # 0 /\ \A j \in (i + 1)..Len(w) : w[j] = 0
        bits == CHOOSE b \in 1..8 : w[top] < 2 ^ b /\ w[top] >= 2 ^ (b - 1)
    IN 8 * (top - 1) + bits

\* x, or a little more than x when sticky, rounded to the 53 significant bits of a
\* float64, ties to even: the float64 is m * 2^s
Round53(x, sticky) ==
    LET s == WBitLen(x) - 53
        twice == WAdd(WShiftLeft(x, 1), WFromInt(IF sticky THEN 1 ELSE 0, Len(x)), Len(x))
    IN IF s <= 0 THEN [m |-> x, s |-> 0]
       ELSE [m |-> RoundShift(twice, s + 1), s |-> s]

\* a positive int in the 20 digits the float64 operations work in
Wide(n) == WFromInt(n, 20)

\* the float64 quotient num / den of positive integers (num * 2^64 within 20 digits,
\* num / den at least 2^-11): the float64 is m / 2^e
Float64Quot(num, den) ==
    LET d == WDivFrom(WShiftLeft(num, 64), den, 1)
        r == Round53(d.q, d.rem # WZero(Len(den)))
    IN [m |-> r.m, e |-> 64 - r.s]

\* the float64 product float64(n) * x
Float64Times(n, x) ==
    LET r == Round53(WMul(Wide(n), x.m, 20), FALSE)
    IN [m |-> r.m, e |-> x.e - r.s]

\* x > y on float64
Float64Greater(x, y) == WLess(WShiftLeft(y.m, x.e), WShiftLeft(x.m, y.e))

\* int(x) of a float64: the fraction is dropped
Float64ToInt(x) == WToInt(WShiftRight(x.m, x.e))

\* CalculateAspectRatio, of positive arguments
CalculateAspectRatio(originalWidth, originalHeight, targetWidth, targetHeight) ==
    LET originalAspect == Float64Quot(Wide(originalWidth), Wide(originalHeight))
        targetAspect == Float64Quot(Wide(targetWidth), Wide(targetHeight))
    IN IF Float64Greater(originalAspect, targetAspect)
       THEN [newWidth |-> targetWidth,
             newHeight |-> Float64ToInt(
                 Float64Quot(WShiftLeft(Wide(targetWidth), originalAspect.e),
                             originalAspect.m))]
       ELSE [newWidth |-> Float64ToInt(Float64Times(targetHeight, originalAspect)),
             newHeight |-> targetHeight]

\* a call of GenerateMultiple that ended: its results, its error with the offset and
\* the failed call it names, the steps of its GenerateFromVideo calls, whether it
\* ended in a run-time panic, and the options the request points at afterwards
MultipleReturn(results, err, offset, cause, steps, panic, after) ==
    [results |-> results, err |-> err, offset |-> offset, cause |-> cause,
     steps |-> steps, panic |-> panic, after |-> after]

NoCall == [none |-> "GenerateFromVideo"]

RECURSIVE MultipleWalk_Prepend(_, _, _, _, _, _)
\* the loop of GenerateMultiple putting each result in front of the earlier ones
MultipleWalk_Prepend(g, request, encoded, i, results, steps) ==
    IF i > Len(request.TimeOffsets)
    THEN MultipleReturn(results, NoError, <<>>, NoCall, steps, FALSE, request.Options)
    ELSE IF request.Options = NilOptions
    THEN MultipleReturn(NilThumbnails, NoError, <<>>, NoCall, steps, TRUE,
                        request.Options)
    ELSE LET timeOffset == request.TimeOffsets[i]
             options == [request.Options EXCEPT !.TimeOffset = timeOffset]
             made == GenerateFromVideo(g, [VideoData |-> request.VideoData,
                                           Options |-> options], encoded[i])
         IN IF made.err # NoError
            THEN MultipleReturn(NilThumbnails, ErrOffsetFailed, SprintfFloat1(timeOffset),
                                made, steps \o made.steps, FALSE, request.Options)
            ELSE MultipleWalk_Prepend(g, request, encoded, i + 1,
                                      <<made.result>> \o results, steps \o made.steps)

RECURSIVE MultipleWalk_KeepResults(_, _, _, _, _, _)
\* the loop of GenerateMultiple handing out, on a failure, the results made so far
MultipleWalk_KeepResults(g, request, encoded, i, results, steps) ==
    IF i > Len(request.TimeOffsets)
    THEN MultipleReturn(results, NoError, <<>>, NoCall, steps, FALSE, request.Options)
    ELSE IF request.Options = NilOptions
    THEN MultipleReturn(NilThumbnails, NoError, <<>>, NoCall, steps, TRUE,
                        request.Options)
    ELSE LET timeOffset == request.TimeOffsets[i]
             options == [request.Options EXCEPT !.TimeOffset = timeOffset]
             made == GenerateFromVideo(g, [VideoData |-> request.VideoData,
                                           Options |-> options], encoded[i])
         IN IF made.err # NoError
            THEN MultipleReturn(results, ErrOffsetFailed, SprintfFloat1(timeOffset),
                                made, steps \o made.steps, FALSE, request.Options)
            ELSE MultipleWalk_KeepResults(g, request, encoded, i + 1,
                                          Append(results, made.result),
                                          steps \o made.steps)

RECURSIVE MultipleWalk(_, _, _, _, _, _)
\* the loop of GenerateMultiple from offset i on; encoded[i] is what the encoder
\* writes for offset i.  options is a copy of *request.Options, so the request's own
\* options stay as they were
MultipleWalk(g, request, encoded, i, results, steps) ==
    IF i > Len(request.TimeOffsets)
    THEN MultipleReturn(results, NoError, <<>>, NoCall, steps, FALSE, request.Options)
    ELSE IF request.Options = NilOptions                       \* *request.Options
    THEN MultipleReturn(NilThumbnails, NoError, <<>>, NoCall, steps, TRUE,
                        request.Options)
    ELSE LET timeOffset == request.TimeOffsets[i]
             options == [request.Options EXCEPT !.TimeOffset = timeOffset]
             made == GenerateFromVideo(g, [VideoData |-> request.VideoData,
                                           Options |-> options], encoded[i])
         IN IF made.err # NoError
            THEN MultipleReturn(NilThumbnails, ErrOffsetFailed, SprintfFloat1(timeOffset),
                                made, steps \o made.steps, FALSE, request.Options)
            ELSE MultipleWalk(g, request, encoded, i + 1, Append(results, made.result),
                              steps \o made.steps)

\* GenerateMultiple
GenerateMultiple(g, request, encoded) ==
    IF Len(request.VideoData) = 0
    THEN MultipleReturn(NilThumbnails, ErrEmptyVideoData, <<>>, NoCall, <<>>, FALSE,
                        request.Options)
    ELSE IF Len(request.TimeOffsets) = 0
    THEN MultipleReturn(NilThumbnails, ErrEmptyOffsets, <<>>, NoCall, <<>>, FALSE,
                        request.Options)
    ELSE MultipleWalk(g, request, encoded, 1, <<>>, <<>>)

-----------------------------------------------------------------------------
(* The storage and UploadService *)

\* an empty bucket
NoObjects == [n \in {} |-> <<>>]

\* the client holds no multipart session
NoSession == [none |-> "MultipartUploadSession"]

NilUpload == [nil |-> "UploadResult"]

\* the empty string, where the other values of a field are generated names
NoName == [empty |-> "string"]

\* StorageInterface.UploadFile (PutObject): the bucket afterwards
PutObject(objs, objectName, data, contentType) ==
    [n \in (DOMAIN objs) \cup {objectName} |->
        IF n = objectName THEN [data |-> data, contentType |-> contentType] ELSE objs[n]]

\* StorageInterface.DeleteFile (RemoveObject) of several objects: the bucket afterwards
RemoveObjects(objs, names) == [n \in (DOMAIN objs) \ names |-> objs[n]]

\* the ETag the storage gives to an object
ETagOf(data) == [etag |-> data]

\* GenerateObjectName: "videos/{year}/{month}/{uuid}-{filename}"
GenerateObjectName(fileName, uuid) == [uuid |-> uuid, fileName |-> fileName]

\* fmt.Sprintf("%s.part.%d", objectName, partNumber)
PartObjectName(objectName, partNumber) == [object |-> objectName, part |-> partNumber]

\* ValidateUploadRequest: the error
ValidateUploadRequest(req) ==
    IF req.FileName = NoName THEN "EmptyFileName"              \* "文件名不能为空"
    ELSE IF req.ContentType = "" THEN "EmptyContentType"       \* "内容类型不能为空"
    ELSE IF I64Leq(req.Size, WZero(8)) THEN "SizeNotPositive"  \* "文件大小必须大于0"
    ELSE IF I64Less(DefaultMaxFileSize, req.Size) THEN "SizeOverLimit"
    ELSE IF req.Reader = NilUpload THEN "NilReader"            \* "文件读取器不能为空"
    ELSE IF req.BucketName = "" THEN "EmptyBucketName"         \* "存储桶名不能为空"
    ELSE NoError

\* UploadService.UploadFile: the result, the error and the bucket afterwards; uuid is
\* the one GenerateObjectName draws, available tells whether the storage answers
UploadFile(objs, req, uuid, available) ==
    LET err == ValidateUploadRequest(req)
        objectName == GenerateObjectName(req.FileName, uuid)
        data == req.Reader                                      \* io.ReadAll
    IN IF err # NoError THEN [result |-> NilUpload, err |-> err, objects |-> objs]
       ELSE IF ~available
       THEN [result |-> NilUpload, err |-> "UploadFailed", objects |-> objs]
       ELSE [result |-> [ObjectName |-> objectName, Size |-> I64(Len(data)),
                         ETag |-> ETagOf(data)],
             err |-> NoError,
             objects |-> PutObject(objs, objectName, data, req.ContentType)]

\* validateMultipartRequest: the error
validateMultipartRequest(req) ==
    IF req.FileName = NoName THEN "EmptyFileName"
    ELSE IF req.ContentType = "" THEN "EmptyContentType"
    ELSE IF I64Leq(req.TotalSize, WZero(8)) THEN "SizeNotPositive"
    ELSE IF I64Less(DefaultMaxFileSize, req.TotalSize) THEN "SizeOverLimit"
    ELSE IF req.BucketName = "" THEN "EmptyBucketName"
    ELSE IF I64Leq(req.ChunkSize, WZero(8)) THEN "ChunkSizeNotPositive"
    ELSE NoError

\* UploadService.InitMultipartUpload: the session and the error
InitMultipartUpload(req, objectUUID, uploadUUID) ==
    LET err == validateMultipartRequest(req)
    IN IF err # NoError THEN [session |-> NoSession, err |-> err]
       ELSE [session |-> [UploadID |-> [upload |-> uploadUUID],
                          ObjectName |-> GenerateObjectName(req.FileName, objectUUID)],
             err |-> NoError]

\* validateUploadPartRequest: the error
validateUploadPartRequest(req) ==
    IF req.UploadID = NoName THEN "EmptyUploadID"                  \* "上传ID不能为空"
    ELSE IF req.ObjectName = NoName THEN "EmptyObjectName"         \* "对象名不能为空"
    ELSE IF req.PartNumber <= 0 THEN "PartNumberNotPositive"   \* "分片号必须大于0"
    ELSE IF Len(req.Data) = 0 THEN "EmptyPartData"             \* "分片数据不能为空"
    ELSE IF req.BucketName = "" THEN "EmptyBucketName"
    ELSE NoError

\* UploadService.UploadPart: the result, the error and the bucket afterwards
UploadPart(objs, req, available) ==
    LET err == validateUploadPartRequest(req)
    IN IF err # NoError THEN [result |-> NilUpload, err |-> err, objects |-> objs]
       ELSE IF ~available
       THEN [result |-> NilUpload, err |-> "UploadPartFailed", objects |-> objs]
       ELSE [result |-> [PartNumber |-> req.PartNumber, ETag |-> ETagOf(req.Data),
                         Size |-> I64(Len(req.Data))],
             err |-> NoError,
             objects |-> PutObject(objs, PartObjectName(req.ObjectName, req.PartNumber),
                                   req.Data, "application/octet-stream")]

\* validateCompleteMultipartRequest: the error
validateCompleteMultipartRequest(req) ==
    IF req.UploadID = NoName THEN "EmptyUploadID"
    ELSE IF req.ObjectName = NoName THEN "EmptyObjectName"
    ELSE IF Len(req.Parts) = 0 THEN "EmptyParts"               \* "分片列表不能为空"
    ELSE IF req.BucketName = "" THEN "EmptyBucketName"
    ELSE IF \E i \in 1..Len(req.Parts) :
               /\ \A j \in 1..(i - 1) :
                     req.Parts[j].PartNumber = j /\ req.Parts[j].ETag # NoName
               /\ req.Parts[i].PartNumber # i
    THEN "PartNumbersNotConsecutive"                           \* "分片编号不连续"
    ELSE IF \E i \in 1..Len(req.Parts) : req.Parts[i].ETag = NoName
    THEN "EmptyETag"                                           \* "分片 %d 的ETag不能为空"
    ELSE NoError

RECURSIVE PartsSize(_, _, _)
\* totalSize: the sizes GetFileInfo reports for the first i parts
PartsSize(objs, req, i) ==
    IF i = 0 THEN 0
    ELSE PartsSize(objs, req, i - 1)
           + Len(objs[PartObjectName(req.ObjectName, req.Parts[i].PartNumber)].data)

\* UploadService.CompleteMultipartUpload: the result, the error and the bucket
\* afterwards; deletes tells whether the storage carries out the deletions
CompleteMultipartUpload(objs, req, available, deletes) ==
    LET err == validateCompleteMultipartRequest(req)
        names == { PartObjectName(req.ObjectName, req.Parts[i].PartNumber) :
                      i \in 1..Len(req.Parts) }
        totalData == <<>>                                       \* var totalData []byte
        final == PutObject(objs, req.ObjectName, totalData, "video/mp4")
    IN IF err # NoError THEN [result |-> NilUpload, err |-> err, objects |-> objs]
       ELSE IF ~available
       THEN [result |-> NilUpload, err |-> "PartCheckFailed", objects |-> objs]
       ELSE IF \E n \in names : n \notin DOMAIN objs
       THEN [result |-> NilUpload, err |-> "PartMissing", objects |-> objs]
       ELSE [result |-> [ObjectName |-> req.ObjectName,
                         Size |-> I64(PartsSize(objs, req, Len(req.Parts))),
                         ETag |-> ETagOf(totalData)],
             err |-> NoError,
             objects |-> IF deletes THEN RemoveObjects(final, names) ELSE final]

-----------------------------------------------------------------------------
(* VideoService *)

\* errorResponse(code, message)
ErrorResponse(code, steps) ==
    [Code |-> code, Video |-> [nil |-> "Video"], steps |-> steps]

\* the options UploadVideo asks a thumbnail with
UploadThumbnailOptions ==
    [Width |-> 320, Height |-> 240, Quality |-> 80, Format |-> "jpeg",
     TimeOffset |-> Float(0), KeepAspect |-> FALSE]

\* what UploadVideo does after the video's object is stored: the thumbnail, the
\* metadata and the response.  Duration, Width and Height are the VideoInfo's, before
\* their conversion to seconds and to int32
UploadVideo_Finish(g, objs, header, videoID, videoInfo, objectName, outcome, steps) ==
    LET made == GenerateFromVideo(g, [VideoData |-> header.Data,
                                      Options |-> UploadThumbnailOptions],
                                  outcome.encoded)
        thumbnailObjectName == [thumbnail |-> videoID]
        sent == IF made.err = NoError /\ made.result # NilThumbnail
                THEN UploadFile(objs, [FileName |-> thumbnailObjectName,
                                       ContentType |-> "image/jpeg",
                                       Size |-> made.result.FileSize,
                                       Reader |-> made.result.ImageData,
                                       BucketName |-> "zhulong-videos"],
                                outcome.thumbnailUUID, outcome.thumbnailStored)
                ELSE [result |-> NilUpload, err |-> "not called", objects |-> objs]
        thumbnailPath == IF sent.err = NoError THEN thumbnailObjectName ELSE NoName
    IN [response |->
          [Code |-> 0,
           Video |-> [ID |-> videoID, Filename |-> header.Filename,
                      ContentType |-> header.ContentType,
                      Size |-> I64(Len(header.Data)),
                      Duration |-> videoInfo.Duration, Width |-> videoInfo.Width,
                      Height |-> videoInfo.Height, StoragePath |-> objectName,
                      ThumbnailPath |-> thumbnailPath],
           steps |-> steps \o <<[step |-> "GenerateFromVideo", err |-> made.err],
                                [step |-> "UploadFile", err |-> sent.err],
                                [step |-> "SaveMetadata",
                                 err |-> IF outcome.saved THEN NoError
                                         ELSE "SaveFailed"]>>],
        objects |-> sent.objects]

\* UploadVideo giving up when the metadata cannot be extracted
UploadVideo_ExtractionAborts(min, max, g, objs, header, videoID, outcome) ==
    LET size == I64(Len(header.Data))
        valid == ValidateFormat([Filename |-> header.Filename,
                                 ContentType |-> header.ContentType,
                                 Data |-> Slice(header.Data, 0, Min(Len(header.Data), 512))])
        extracted == ExtractInfo([Data |-> Slice(header.Data, 0,
                                                Min(Len(header.Data), 1024 * 1024)),
                                  Filename |-> header.Filename])
        objectName == [video |-> videoID, ext |-> FilepathExt(header.Filename)]
        stored == UploadFile(objs, [FileName |-> objectName,
                                    ContentType |-> header.ContentType, Size |-> size,
                                    Reader |-> header.Data,
                                    BucketName |-> "zhulong-videos"],
                             outcome.videoUUID, outcome.videoStored)
        steps == <<[step |-> "ValidateSize", err |-> NoError],
                   [step |-> "ValidateFormat", err |-> NoError],
                   [step |-> "ExtractInfo", err |-> extracted.err],
                   [step |-> "UploadFile", err |-> stored.err]>>
    IN IF ~outcome.opens THEN [response |-> ErrorResponse(1001, <<>>), objects |-> objs]
       ELSE IF ~outcome.reads \/ Len(header.Data) = 0
       THEN [response |-> ErrorResponse(1002, <<>>), objects |-> objs]
       ELSE IF ValidateSize(min, max, size).err # NoError
       THEN [response |-> ErrorResponse(1003, <<>>), objects |-> objs]
       ELSE IF valid.err # NoError
       THEN [response |-> ErrorResponse(1004, <<>>), objects |-> objs]
       ELSE IF ~valid.result.IsValid
       THEN [response |-> ErrorResponse(1005, <<>>), objects |-> objs]
       ELSE IF stored.err # NoError
       THEN [response |-> ErrorResponse(1006, steps), objects |-> objs]
       ELSE IF extracted.err # NoError
       THEN [response |-> ErrorResponse(1007, steps), objects |-> stored.objects]
       ELSE UploadVideo_Finish(g, stored.objects, header, videoID, extracted.info,
                               objectName, outcome, steps)

\* VideoService.UploadVideo: the response and the bucket afterwards.  header is the
\* uploaded file, videoID the uuid drawn for it; outcome tells whether the file opens
\* and reads, whether the storage takes the video and the thumbnail, whether the
\* metadata is saved, and what the uuids and the encoder's bytes are
UploadVideo(min, max, g, objs, header, videoID, outcome) ==
    LET size == I64(Len(header.Data))
        valid == ValidateFormat([Filename |-> header.Filename,
                                 ContentType |-> header.ContentType,
                                 Data |-> Slice(header.Data, 0, Min(Len(header.Data), 512))])
        extracted == ExtractInfo([Data |-> Slice(header.Data, 0,
                                                Min(Len(header.Data), 1024 * 1024)),
                                  Filename |-> header.Filename])
        videoInfo == IF extracted.err # NoError
                     THEN VideoInfo(header.Filename, valid.result.DetectedFormat,
                                    Len(header.Data))
                     ELSE extracted.info
        objectName == [video |-> videoID, ext |-> FilepathExt(header.Filename)]
        stored == UploadFile(objs, [FileName |-> objectName,
                                    ContentType |-> header.ContentType, Size |-> size,
                                    Reader |-> header.Data,
                                    BucketName |-> "zhulong-videos"],
                             outcome.videoUUID, outcome.videoStored)
        steps == <<[step |-> "ValidateSize", err |-> NoError],
                   [step |-> "ValidateFormat", err |-> NoError],
                   [step |-> "ExtractInfo", err |-> extracted.err],
                   [step |-> "UploadFile", err |-> stored.err]>>
    IN IF ~outcome.opens THEN [response |-> ErrorResponse(1001, <<>>), objects |-> objs]
       ELSE IF ~outcome.reads \/ Len(header.Data) = 0           \* io.EOF
       THEN [response |-> ErrorResponse(1002, <<>>), objects |-> objs]
       ELSE IF ValidateSize(min, max, size).err # NoError
       THEN [response |-> ErrorResponse(1003, <<>>), objects |-> objs]
       ELSE IF valid.err # NoError
       THEN [response |-> ErrorResponse(1004, <<>>), objects |-> objs]
       ELSE IF ~valid.result.IsValid
       THEN [response |-> ErrorResponse(1005, <<>>), objects |-> objs]
       ELSE IF stored.err # NoError
       THEN [response |-> ErrorResponse(1006, steps), objects |-> objs]
       ELSE UploadVideo_Finish(g, stored.objects, header, videoID, videoInfo,
                               objectName, outcome, steps)

-----------------------------------------------------------------------------
(* The requests of the format sniffer's callers *)

\* buffers are cut at every length 0..MaxSniffLen
MaxSniffLen == 13

EBML == <<26, 69, 223, 163>>
RIFF == <<82, 73, 70, 70>>
FTYP == <<102, 116, 121, 112>>

\* bytes[0:4]: the two signatures, an ftyp box size, a near miss of EBML
SniffWord0 == {EBML, RIFF, <<0, 0, 0, 32>>, <<26, 69, 223, 164>>}

\* bytes[4:8]: "ftyp", a RIFF size, a near miss "ftyq"
SniffWord1 == {FTYP, <<0, 0, 0, 0>>, <<102, 116, 121, 113>>}

\* bytes[8:12]: "AVI ", the five brands, and the near misses "AVI\0", "mp43", zeros
SniffWord2 == {AviMarker, <<65, 86, 73, 0>>, <<109, 112, 52, 51>>, <<0, 0, 0, 0>>}
                  \cup mp4Brands \cup movBrands

\* what follows the first 12 bytes
SniffTails == { <<0, 0, 0, 0>>, <<255, 102, 116, 121>> }

Prefix(s, n) == SubSeq(s, 1, Min(n, Len(s)))

SniffBuffers ==
    { Prefix(w0 \o w1 \o w2 \o t, n) :
        w0 \in SniffWord0, w1 \in SniffWord1, w2 \in SniffWord2, t \in SniffTails,
        n \in 0..MaxSniffLen }

Filenames ==
    { <<>>,                                          \* ""
      <<"v">>,                                       \* no extension
      <<"v", ".">>,                                  \* "v."
      <<"v", ".", "m", "p", "4">>,
      <<"v", ".", "M", "P", "4">>,
      <<"v", ".", "w", "e", "b", "m">>,
      <<"v", ".", "a", "v", "i">>,
      <<"v", ".", "m", "o", "v">>,
      <<"v", ".", "M", "o", "v">>,
      <<"v", ".", "t", "x", "t">>,
      <<"v", ".", "w", "m", "v">>,
      <<".", "a", "v", "i">>,                        \* ".avi"
      <<"v", ".", "m", "p", "4", ".", "w", "e", "b", "m">>,
      <<"d", ".", "m", "p", "4", "/", "v">> }        \* "d.mp4/v": the dot is the directory's

ContentTypes == {"", "video/mp4", "video/webm", "text/plain"}

\* the content types of ValidateContentType's callers: the mapped ones, the tests'
\* others, and the mapped ones in another case, with a parameter, without "video/"
ContentTypeArgs ==
    ContentTypes
    \cup {"video/avi", "video/x-msvideo", "video/quicktime", "video/x-ms-wmv", "audio/mp3",
          "Video/MP4", "video/mp4; codecs=avc1", "video/mp4 ", "mp4", "video/mov",
          "video/", "application/octet-stream"}

Idle  == [op |-> "idle"]
NoRet == [none |-> TRUE]

-----------------------------------------------------------------------------
(* The format sniffer's caller: one call at a time *)

Init ==
    /\ call = Idle
    /\ ret = NoRet
    /\ prev = NoRet
    /\ maxFileSize = DefaultMaxFileSize
    /\ minFileSize = DefaultMinFileSize
    /\ formatLimits = EmptyLimits
    /\ wpc = Idle
    /\ rpc = Idle
    /\ committed = {<<DefaultMaxFileSize, DefaultMinFileSize>>}
    /\ maxWidth = 1920
    /\ maxHeight = 1080
    /\ minWidth = 64
    /\ minHeight = 64
    /\ objects = NoObjects
    /\ session = NoSession

others == <<prev, maxFileSize, minFileSize, formatLimits, wpc, rpc, committed, generator, storage>>

DetectFormat ==
    /\ call = Idle
    /\ \E data \in SniffBuffers :
         /\ call' = [op |-> "DetectFormat", Data |-> data]
         /\ ret' = DetectFormatByMagicNumber(data)
    /\ UNCHANGED others

ValidateFormatCall ==
    /\ call = Idle
    /\ \E filename \in Filenames, contentType \in ContentTypes, data \in SniffBuffers :
         /\ call' = [op |-> "ValidateFormat", Filename |-> filename,
                     ContentType |-> contentType, Data |-> data]
         /\ ret' = ValidateFormat(call')
    /\ UNCHANGED others

ValidateContentTypeCall ==
    /\ call = Idle
    /\ \E contentType \in ContentTypeArgs :
         /\ call' = [op |-> "ValidateContentType", ContentType |-> contentType]
         /\ ret' = [err |-> ValidateContentType(contentType)]
    /\ UNCHANGED others

Return ==
    /\ call # Idle
    /\ call' = Idle
    /\ ret' = NoRet
    /\ UNCHANGED others

\* the sizes the callers of ComprehensiveValidation declare for data
DeclaredSizes(data) == { I64(Len(data)), I64(-1), WAdd(ValidatorMaxFileSize, I64(1), 8) }

\* the names the callers of ComprehensiveValidation give their files
DeclaredFilenames ==
    { <<>>, <<"v", ".", "m", "p", "4">>, <<"v", ".", "w", "e", "b", "m">> }

ComprehensiveValidationCall ==
    /\ call = Idle
    /\ \E filename \in DeclaredFilenames, contentType \in ContentTypes, data \in SniffBuffers :
         \E size \in DeclaredSizes(data) :
            /\ call' = [op |-> "ComprehensiveValidation", Filename |-> filename,
                        ContentType |-> contentType, Data |-> data, Size |-> size]
            /\ ret' = ComprehensiveValidation(call')
    /\ UNCHANGED others

Next ==
    \/ DetectFormat
    \/ ValidateFormatCall
    \/ ValidateContentTypeCall
    \/ ComprehensiveValidationCall
    \/ Return

Spec == Init /\ [][Next]_vars

-----------------------------------------------------------------------------
(* The requests of the extractor's callers *)

\* each container body is also cut short by 1..MaxCut bytes
MaxCut == 2

Zeros(n) == [i \in 1..n |-> 0]

\* a size below 65536 as a big-endian uint32
BE32(n) == <<0, 0, n \div 256, n % 256>>

U32Max == <<255, 255, 255, 255>>

TagMvhd == <<109, 118, 104, 100>>
TagTkhd == <<116, 107, 104, 100>>
TagStsd == <<115, 116, 115, 100>>
TagAvih == <<97, 118, 105, 104>>

\* a movie header box of 32 bytes: timescale at box offset 20, duration at 24
Mvhd(timeScale, duration) ==
    BE32(32) \o TagMvhd \o Zeros(12) \o timeScale \o duration \o Zeros(4)

\* a track header box of 92 bytes: width and height (16.16) in its last 8 bytes
Tkhd(width, height) == BE32(92) \o TagTkhd \o Zeros(76) \o width \o height

\* a sample description box of 24 bytes naming two codecs
Stsd(video, audio) == BE32(24) \o TagStsd \o Zeros(8) \o video \o audio

TimeScales == { Zeros(4), BE32(1), BE32(1000), U32Max }
Durations  == { Zeros(4), BE32(60000), U32Max }

MP4Bodies ==
    { <<>> }
    \cup { Mvhd(t, d) : t \in TimeScales, d \in Durations }
    \cup { BE32(16) \o TagMvhd \o Zeros(8),                   \* a movie header too short
           BE32(40) \o TagMvhd \o Zeros(24),                  \* a size beyond the buffer
           Zeros(4) \o TagMvhd \o Zeros(24),                  \* a size of 0
           U32Max \o TagTkhd \o Zeros(24),
           BE32(1) \o TagStsd \o Zeros(24),                   \* a size below the header's
           Tkhd(<<7, 128, 0, 0>>, <<4, 56, 0, 0>>),           \* 1920 x 1080
           Tkhd(U32Max, U32Max),
           BE32(91) \o TagTkhd \o Zeros(83),
           Stsd(<<97, 118, 99, 49>>, <<109, 112, 52, 97>>),   \* avc1, mp4a
           Stsd(<<104, 118, 99, 49>>, Zeros(4)),              \* hvc1
           BE32(12) \o TagStsd \o <<109, 112, 52, 97>>,
           Mvhd(BE32(1000), BE32(60000)) \o Tkhd(<<2, 128, 0, 0>>, <<1, 224, 0, 0>>)
               \o Stsd(<<97, 118, 99, 49>>, <<109, 112, 52, 97>>),
           BE32(8) \o <<102, 114, 101, 101>> \o Mvhd(BE32(1), U32Max) }

\* the ftyp box's own size: the walk starts at offset 0
FtypSizes == { BE32(12), BE32(20), BE32(1), Zeros(4), U32Max }

MP4Buffers ==
    { Prefix(size \o FTYP \o brand \o body, 12 + Len(body) - cut) :
        size \in FtypSizes,
        brand \in { <<105, 115, 111, 109>>, <<113, 116, 32, 32>> },
        body \in MP4Bodies,
        cut \in 0..MaxCut }

\* the avih chunk: tag, chunk size, then the header with microSecPerFrame at 0,
\* totalFrames at 16, width at 32, height at 36 (little-endian)
Avih(microSecPerFrame, totalFrames, width, height) ==
    TagAvih \o <<56, 0, 0, 0>> \o microSecPerFrame \o Zeros(12) \o totalFrames
        \o Zeros(12) \o width \o height \o Zeros(8)

MicroSecs   == { Zeros(4), <<64, 156, 0, 0>>,          \* 40000: 25 fps
                 <<64, 66, 15, 0>>,                    \* 1000000: 1 fps
                 <<0, 9, 61, 0>> }                     \* 4000000: 0.25 fps
FrameCounts == { Zeros(4), <<250, 0, 0, 0>>, U32Max }
AviSizes    == { << <<128, 2, 0, 0>>, <<224, 1, 0, 0>> >>,   \* 640 x 480
                 << U32Max, Zeros(4) >> }

AVIBodies ==
    { <<>>, TagAvih, <<76, 73, 83, 84>> \o Zeros(4) }
    \cup { pre \o Avih(m, f, wh[1], wh[2]) :
             pre \in { <<>>, <<76, 73, 83, 84, 0>> },          \* "LIST"
             m \in MicroSecs, f \in FrameCounts, wh \in AviSizes }

AVIBuffers ==
    { Prefix(RIFF \o Zeros(4) \o AviMarker \o body, 12 + Len(body) - cut) :
        body \in AVIBodies, cut \in 0..MaxCut }

WebMBuffers ==
    { EBML \o Zeros(8) \o body :
        body \in { <<>>, <<68, 137, 132, 71>>, <<68, 0, 137>>, <<176, 130, 7, 128>>,
                   <<186, 130, 4, 56>>, <<68, 137, 176, 186>> } }

ExtractBuffers == SniffBuffers \cup MP4Buffers \cup AVIBuffers \cup WebMBuffers

ExtractFilenames == { <<"v", ".", "m", "p", "4">>, <<>> }

ExtractInfoCall ==
    /\ call = Idle
    /\ \E filename \in ExtractFilenames, data \in ExtractBuffers :
         /\ call' = [op |-> "ExtractInfo", Filename |-> filename, Data |-> data]
         /\ ret' = ExtractInfo(call')
    /\ UNCHANGED others

ExtractDurationCall ==
    /\ call = Idle
    /\ \E data \in ExtractBuffers :
         /\ call' = [op |-> "ExtractDuration", Data |-> data]
         /\ ret' = ExtractDuration(data)
    /\ UNCHANGED others

ExtractResolutionCall ==
    /\ call = Idle
    /\ \E data \in ExtractBuffers :
         /\ call' = [op |-> "ExtractResolution", Data |-> data]
         /\ ret' = ExtractResolution(data)
    /\ UNCHANGED others

ExtractBitrateCall ==
    /\ call = Idle
    /\ \E data \in ExtractBuffers :
         /\ call' = [op |-> "ExtractBitrate", Data |-> data]
         /\ ret' = ExtractBitrate(data)
    /\ UNCHANGED others

ExtractFrameRateCall ==
    /\ call = Idle
    /\ \E data \in ExtractBuffers :
         /\ call' = [op |-> "ExtractFrameRate", Data |-> data]
         /\ ret' = ExtractFrameRate(data)
    /\ UNCHANGED others

NextExtract ==
    \/ ExtractInfoCall
    \/ ExtractDurationCall
    \/ ExtractResolutionCall
    \/ ExtractBitrateCall
    \/ ExtractFrameRateCall
    \/ Return

SpecExtract == Init /\ [][NextExtract]_vars

-----------------------------------------------------------------------------
(* The format sniffer called twice *)

PairBuffers ==
    { Prefix(w0 \o w1 \o w2 \o t, n) :
        w0 \in {EBML, RIFF, <<0, 0, 0, 32>>},
        w1 \in {FTYP, <<0, 0, 0, 0>>},
        w2 \in {AviMarker, <<105, 115, 111, 109>>, <<113, 116, 32, 32>>, <<0, 0, 0, 0>>},
        t \in SniffTails,
        n \in {0, 4, 8, 11} \cup 12..MaxSniffLen }

PairFilenames == { <<"v", ".", "m", "p", "4">>, <<"v", ".", "w", "e", "b", "m">>,
                   <<"v", ".", "a", "v", "i">> }

DetectNext ==
    /\ call = Idle
    /\ \E data \in PairBuffers :
         /\ call' = [op |-> "DetectFormat", Data |-> data]
         /\ ret' = DetectFormatByMagicNumber(data)
    /\ UNCHANGED others

ValidateNext ==
    /\ call = Idle
    /\ prev # NoRet
    /\ \E filename \in PairFilenames, contentType \in {"", "video/webm"},
          data \in PairBuffers :
         /\ call' = [op |-> "ValidateFormat", Filename |-> filename,
                     ContentType |-> contentType, Data |-> data]
         /\ ret' = ValidateFormat(call')
    /\ UNCHANGED others

\* the caller keeps what DetectFormatByMagicNumber returned
Remember ==
    /\ call # Idle
    /\ prev' = IF call.op = "DetectFormat" THEN [Data |-> call.Data, ret |-> ret] ELSE prev
    /\ call' = Idle
    /\ ret' = NoRet
    /\ UNCHANGED <<maxFileSize, minFileSize, formatLimits, wpc, rpc, committed, generator, storage>>

NextPair == DetectNext \/ ValidateNext \/ Remember

SpecPair == Init /\ [][NextPair]_vars

-----------------------------------------------------------------------------
(* The size limits' owner: one call of a mutator at a time *)

GiB2 == DefaultMaxFileSize

\* math.MaxInt64
I64Max == <<255, 255, 255, 255, 255, 255, 255, 127>>

SizeArgs == { I64(-1), I64(0), I64(1), I64(2), GiB2, WAdd(GiB2, I64(1), 8), I64Max }

LimitFormats == {MP4, WEBM}

FormatLimitArgs ==
    UNION { [fs -> {I64(0), I64(1), GiB2}] : fs \in SUBSET LimitFormats }

SetMaxFileSizeCall ==
    /\ call = Idle
    /\ \E size \in SizeArgs :
         /\ call' = [op |-> "SetMaxFileSize", size |-> size]
         /\ maxFileSize' = SetMaxFileSize(maxFileSize, size)
    /\ ret' = NoRet
    /\ UNCHANGED <<prev, minFileSize, formatLimits, wpc, rpc, committed, generator, storage>>

SetMinFileSizeCall ==
    /\ call = Idle
    /\ \E size \in SizeArgs :
         /\ call' = [op |-> "SetMinFileSize", size |-> size]
         /\ minFileSize' = SetMinFileSize(minFileSize, size)
    /\ ret' = NoRet
    /\ UNCHANGED <<prev, maxFileSize, formatLimits, wpc, rpc, committed, generator, storage>>

SetFormatLimitsCall ==
    /\ call = Idle
    /\ \E limits \in FormatLimitArgs :
         /\ call' = [op |-> "SetFormatLimits", limits |-> limits]
         /\ formatLimits' = SetFormatLimits(limits)
    /\ ret' = NoRet
    /\ UNCHANGED <<prev, maxFileSize, minFileSize, wpc, rpc, committed, generator, storage>>

\* UpdateLimits storing the maximum as soon as it has checked it
UpdateLimitsCall_StoresAsItChecks ==
    /\ call = Idle
    /\ \E max \in SizeArgs, min \in SizeArgs :
         LET limits == [MaxFileSize |-> max, MinFileSize |-> min]
             err == UpdateLimitsCheck(limits)
         IN /\ call' = [op |-> "UpdateLimits", limits |-> limits,
                        before |-> <<maxFileSize, minFileSize>>]
            /\ ret' = [err |-> err]
            /\ maxFileSize' = IF err # ErrMaxNotPositive THEN limits.MaxFileSize
                              ELSE maxFileSize
            /\ minFileSize' = IF err = NoError THEN limits.MinFileSize ELSE minFileSize
    /\ UNCHANGED <<prev, formatLimits, wpc, rpc, committed, generator, storage>>

UpdateLimitsCall ==
    /\ call = Idle
    /\ \E max \in SizeArgs, min \in SizeArgs :
         LET limits == [MaxFileSize |-> max, MinFileSize |-> min]
             err == UpdateLimitsCheck(limits)
         IN /\ call' = [op |-> "UpdateLimits", limits |-> limits,
                        before |-> <<maxFileSize, minFileSize>>]
            /\ ret' = [err |-> err]
            /\ maxFileSize' = IF err = NoError THEN limits.MaxFileSize ELSE maxFileSize
            /\ minFileSize' = IF err = NoError THEN limits.MinFileSize ELSE minFileSize
    /\ UNCHANGED <<prev, formatLimits, wpc, rpc, committed, generator, storage>>

NextLimits ==
    \/ SetMaxFileSizeCall
    \/ SetMinFileSizeCall
    \/ SetFormatLimitsCall
    \/ UpdateLimitsCall
    \/ Return

SpecLimits == Init /\ [][NextLimits]_vars

-----------------------------------------------------------------------------
(* The size limits' callers: the mutators and the validations *)

MaxBatch == 2

ValidateSizes ==
    SizeArgs \cup { I64(3), WSub(GiB2, I64(1), 8), I64(-1025) }

BatchElements == { I64(-1), I64(0), I64(1), GiB2, I64Max }

BatchLists == UNION { [1..n -> BatchElements] : n \in 0..MaxBatch }

FormatSizes ==
    { WAdd(base, I64(d), 8) :
        base \in {I64(0), KB, MB, GB, TB, WResize(Pow2(53, 8), 8)}, d \in {-1, 0, 1} }
    \cup { I64(512 + 1024), I64(128 + 1024), I64(128 + 256 + 1024), GiB2, I64Max, I64(-1025),
           <<177, 84, 24, 92, 245, 15, 71, 0>> }     \* 20002332025175409

ValidateSizeCall ==
    /\ call = Idle
    /\ \E size \in ValidateSizes :
         /\ call' = [op |-> "ValidateSize", size |-> size]
         /\ ret' = ValidateSize(minFileSize, maxFileSize, size)
    /\ UNCHANGED others

ValidateSizeForFormatCall ==
    /\ call = Idle
    /\ \E format \in {MP4, WEBM, AVI}, size \in ValidateSizes :
         /\ call' = [op |-> "ValidateSizeForFormat", format |-> format, size |-> size]
         /\ ret' = ValidateSizeForFormat(minFileSize, maxFileSize, formatLimits,
                                         format, size)
    /\ UNCHANGED others

ValidateBatchSizesCall ==
    /\ call = Idle
    /\ \E sizes \in BatchLists :
         /\ call' = [op |-> "ValidateBatchSizes", sizes |-> sizes]
         /\ ret' = ValidateBatchSizes(minFileSize, maxFileSize, sizes)
    /\ UNCHANGED others

FormatSizeCall ==
    /\ call = Idle
    /\ \E size \in FormatSizes :
         /\ call' = [op |-> "FormatSize", size |-> size]
         /\ ret' = FormatSize(size)
    /\ UNCHANGED others

NextSize ==
    \/ SetMaxFileSizeCall
    \/ SetMinFileSizeCall
    \/ SetFormatLimitsCall
    \/ UpdateLimitsCall
    \/ ValidateSizeCall
    \/ ValidateSizeForFormatCall
    \/ ValidateBatchSizesCall
    \/ FormatSizeCall
    \/ Return

SpecSize == Init /\ [][NextSize]_vars

-----------------------------------------------------------------------------
(* The thumbnail generator's callers *)

\* lists of time offsets have up to MaxOffsets elements
MaxOffsets == 2

manager == <<maxFileSize, minFileSize, formatLimits, wpc, rpc, committed>>

\* no bytes, a header too short, bytes of no format, an MP4 and a WebM
ThumbnailVideos ==
    { <<>>, Zeros(3), Zeros(12), BE32(32) \o FTYP \o <<105, 115, 111, 109>>,
      EBML \o Zeros(8) }

Offsets == { Float(-1), Float(0), Float(5), NaN }

\* the limits and their neighbours, in every combination
OptionArgs ==
    { [Width |-> w, Height |-> h, Quality |-> q, Format |-> f, TimeOffset |-> t,
       KeepAspect |-> FALSE] :
        w \in {32, 63, 64, 1920, 1921, 2048}, h \in {63, 64, 1080, 1081, 2048},
        q \in {0, 1, 100, 101}, f \in {"jpeg", "png", "gif"}, t \in Offsets }
    \cup { NilOptions }

\* the options of a GenerateMultiple request
MultipleOptionArgs ==
    { o \in OptionArgs :
        o # NilOptions => /\ o.Width \in {64, 2048}
                          /\ o.Height = 1080
                          /\ o.Quality \in {0, 100}
                          /\ o.TimeOffset \in {Float(-1), Float(0)} }

OffsetLists == UNION { [1..n -> Offsets] : n \in 0..MaxOffsets }

\* what an encoder writes after its first bytes
EncoderOutputs == { <<0>>, <<0, 0, 0>> }

DimensionArgs == { <<2048, -1>>, <<0, 32>> }

SetMaxDimensionsCall ==
    /\ call = Idle
    /\ \E d \in DimensionArgs :
         /\ call' = [op |-> "SetMaxDimensions", width |-> d[1], height |-> d[2]]
         /\ maxWidth' = SetDimension(maxWidth, d[1])
         /\ maxHeight' = SetDimension(maxHeight, d[2])
    /\ ret' = NoRet
    /\ UNCHANGED <<prev, manager, minWidth, minHeight, storage>>

SetMinDimensionsCall ==
    /\ call = Idle
    /\ \E d \in DimensionArgs :
         /\ call' = [op |-> "SetMinDimensions", width |-> d[1], height |-> d[2]]
         /\ minWidth' = SetDimension(minWidth, d[1])
         /\ minHeight' = SetDimension(minHeight, d[2])
    /\ ret' = NoRet
    /\ UNCHANGED <<prev, manager, maxWidth, maxHeight, storage>>

ValidateOptionsCall ==
    /\ call = Idle
    /\ \E options \in OptionArgs :
         /\ call' = [op |-> "ValidateOptions", Options |-> options]
         /\ ret' = [err |-> ValidateOptions(Generator, options)]
    /\ UNCHANGED others

GenerateFromVideoCall ==
    /\ call = Idle
    /\ \E videoData \in ThumbnailVideos, options \in OptionArgs,
          encoded \in EncoderOutputs :
         /\ call' = [op |-> "GenerateFromVideo", VideoData |-> videoData,
                     Options |-> options]
         /\ ret' = GenerateFromVideo(Generator, call', encoded)
    /\ UNCHANGED others

GenerateMultipleCall ==
    /\ call = Idle
    /\ \E videoData \in ThumbnailVideos, timeOffsets \in OffsetLists,
          options \in MultipleOptionArgs :
         \E encoded \in [1..Len(timeOffsets) -> EncoderOutputs] :
            /\ call' = [op |-> "GenerateMultiple", VideoData |-> videoData,
                        TimeOffsets |-> timeOffsets, Options |-> options]
            /\ ret' = GenerateMultiple(Generator, call', encoded)
    /\ UNCHANGED others

CreatePlaceholderCall ==
    /\ call = Idle
    /\ \E options \in OptionArgs, encoded \in EncoderOutputs :
         /\ call' = [op |-> "CreatePlaceholder", Options |-> options]
         /\ ret' = CreatePlaceholder(Generator, options, <<>>, encoded)
    /\ UNCHANGED others

\* sizes of sources and of destination boxes: the tests' and some others
SourceSizes == { <<1920, 1080>>, <<640, 480>>, <<800, 800>>, <<352, 288>>, <<7, 3>> }
TargetWidths == {320, 200, 66, 35}
TargetHeights == {240, 180, 150, 90, 64, 16}

CalculateAspectRatioCall ==
    /\ call = Idle
    /\ \E original \in SourceSizes,
          targetWidth \in TargetWidths, targetHeight \in TargetHeights :
         /\ call' = [op |-> "CalculateAspectRatio",
                     originalWidth |-> original[1], originalHeight |-> original[2],
                     targetWidth |-> targetWidth, targetHeight |-> targetHeight]
         /\ ret' = CalculateAspectRatio(original[1], original[2],
                                        targetWidth, targetHeight)
    /\ UNCHANGED others

NextThumbnail ==
    \/ SetMaxDimensionsCall
    \/ SetMinDimensionsCall
    \/ ValidateOptionsCall
    \/ GenerateFromVideoCall
    \/ GenerateMultipleCall
    \/ CreatePlaceholderCall
    \/ Return

SpecThumbnail == Init /\ [][NextThumbnail]_vars

NextAspect == CalculateAspectRatioCall \/ Return

SpecAspect == Init /\ [][NextAspect]_vars

-----------------------------------------------------------------------------
(* The upload service's client *)

\* a multipart upload has at most MaxParts parts
MaxParts == 2

\* the values uuid.New() draws from
UUIDs == {1, 2}

Bucket == "zhulong-videos"

PartData == { <<>>, <<7>>, <<7, 7>> }

\* the uuid in an object's name
NameUUID(n) == IF "part" \in DOMAIN n THEN n.object.uuid ELSE n.uuid

\* uuid.New() repeats no value in use
FreshUUIDs ==
    { u \in UUIDs : /\ \A n \in DOMAIN objects : NameUUID(n) # u
                    /\ session # NoSession => session.ObjectName.uuid # u }

\* the CompletedPart list a client makes of its UploadPartResults
CompletedParts(parts) ==
    [i \in 1..Len(parts) |-> [PartNumber |-> parts[i].PartNumber, ETag |-> parts[i].ETag]]

\* the part lists a client completes with: its own parts, and lists that leave one out,
\* lose an ETag, name a part that was never sent, or are empty
PartLists ==
    LET own == CompletedParts(session.Parts)
    IN { own, <<>>, own \o <<[PartNumber |-> Len(own) + 1, ETag |-> ETagOf(<<>>)]>> }
         \cup (IF own = <<>> THEN {}
               ELSE { Tail(own), <<[own[1] EXCEPT !.ETag = NoName]>> \o Tail(own) })

InitMultipartUploadCall ==
    /\ call = Idle
    /\ \E fileName \in {NoName, [file |-> "a.mp4"]}, contentType \in {"", "video/mp4"},
          totalSize \in {I64(0), I64(3)}, bucketName \in {"", Bucket},
          chunkSize \in {I64(0), I64(1)}, objectUUID \in FreshUUIDs, uploadUUID \in UUIDs :
         /\ call' = [op |-> "InitMultipartUpload", FileName |-> fileName,
                     ContentType |-> contentType, TotalSize |-> totalSize,
                     BucketName |-> bucketName, ChunkSize |-> chunkSize]
         /\ ret' = InitMultipartUpload(call', objectUUID, uploadUUID)
         /\ session' = IF ret'.err = NoError
                       THEN [UploadID |-> ret'.session.UploadID,
                             ObjectName |-> ret'.session.ObjectName, Parts |-> <<>>]
                       ELSE session
    /\ UNCHANGED <<prev, manager, generator, objects>>

UploadPartCall ==
    /\ call = Idle
    /\ session # NoSession
    /\ Len(session.Parts) < MaxParts
    /\ \E uploadID \in {NoName, session.UploadID},
          objectName \in {NoName, session.ObjectName},
          partNumber \in {0, Len(session.Parts) + 1}, data \in PartData,
          bucketName \in {"", Bucket}, available \in BOOLEAN :
         /\ call' = [op |-> "UploadPart", UploadID |-> uploadID,
                     ObjectName |-> objectName, PartNumber |-> partNumber,
                     Data |-> data, BucketName |-> bucketName]
         /\ LET done == UploadPart(objects, call', available)
            IN /\ ret' = [result |-> done.result, err |-> done.err]
               /\ objects' = done.objects
               /\ session' = IF done.err = NoError
                             THEN [session EXCEPT !.Parts = Append(@, done.result)]
                             ELSE session
    /\ UNCHANGED <<prev, manager, generator>>

CompleteMultipartUploadCall ==
    /\ call = Idle
    /\ session # NoSession
    /\ \E uploadID \in {NoName, session.UploadID},
          objectName \in {NoName, session.ObjectName},
          parts \in PartLists, bucketName \in {"", Bucket},
          available \in BOOLEAN, deletes \in BOOLEAN :
         /\ call' = [op |-> "CompleteMultipartUpload", UploadID |-> uploadID,
                     ObjectName |-> objectName, Parts |-> parts,
                     BucketName |-> bucketName]
         /\ LET done == CompleteMultipartUpload(objects, call', available, deletes)
            IN /\ ret' = [result |-> done.result, err |-> done.err]
               /\ objects' = done.objects
    /\ UNCHANGED <<prev, manager, generator, session>>

NextMultipart ==
    \/ InitMultipartUploadCall
    \/ UploadPartCall
    \/ CompleteMultipartUploadCall
    \/ Return

SpecMultipart == Init /\ [][NextMultipart]_vars

-----------------------------------------------------------------------------
(* The video service's client *)

\* the uploaded files' names: an MP4, a WebM, a name without extension
UploadFilenames ==
    { <<"v", ".", "m", "p", "4">>, <<"v", ".", "w", "e", "b", "m">>, <<"v">> }

\* the uploaded files' bytes: none, bytes of no format, a WebM signature alone and
\* one with a header of 12 bytes, an MP4 with a movie header and a track header
UploadData ==
    { <<>>, Zeros(12), EBML, EBML \o Zeros(8),
      BE32(12) \o FTYP \o <<105, 115, 111, 109>> \o Mvhd(BE32(1000), BE32(60000))
          \o Tkhd(<<2, 128, 0, 0>>, <<1, 224, 0, 0>>) }

\* the video ids of the objects in the bucket
UsedVideoIDs ==
    { n.fileName.video :
        n \in { m \in DOMAIN objects : "video" \in DOMAIN m.fileName } }

\* what the file, the storage, the metadata service, uuid.New() and the encoder do
\* during one upload
UploadOutcomes ==
    [opens : BOOLEAN, reads : BOOLEAN, videoStored : BOOLEAN, thumbnailStored : BOOLEAN,
     saved : BOOLEAN, videoUUID : {1}, thumbnailUUID : {2}, encoded : {<<0>>}]

UploadVideoCall ==
    /\ call = Idle
    /\ \E filename \in UploadFilenames, contentType \in {"", "video/mp4"},
          data \in UploadData, videoID \in UUIDs \ UsedVideoIDs,
          outcome \in UploadOutcomes :
         /\ call' = [op |-> "UploadVideo", Filename |-> filename,
                     ContentType |-> contentType, Data |-> data, videoID |-> videoID,
                     outcome |-> outcome]
         /\ LET done == UploadVideo(minFileSize, maxFileSize, Generator, objects,
                                    call', videoID, outcome)
            IN /\ ret' = done.response
               /\ objects' = done.objects
    /\ UNCHANGED <<prev, manager, generator, session>>

NextUpload == UploadVideoCall \/ Return

SpecUpload == Init /\ [][NextUpload]_vars

-----------------------------------------------------------------------------
(* The size limits with one goroutine that writes and one that reads.  The manager
   has no lock: every load and every store of a field is a step of its own, in
   program order. *)

MaxOverlap == 2

RaceSizes == { I64(-1), I64(1), I64(2), I64(3) }

RaceFormatLimits ==
    { [f \in {MP4} |-> I64(0)], [f \in {MP4, WEBM} |-> I64(2)] }

\* a field the reader has not loaded
Unread == <<>>

\* the limits as they stood when no call of the writer was under way
LastCommitted ==
    IF wpc.op = "UpdateLimits" THEN wpc.before ELSE <<maxFileSize, minFileSize>>

\* the (max, min) pairs the manager has held between the writer's calls since the
\* reader's call began
Commit(pair) == IF rpc = Idle THEN {pair} ELSE committed \cup {pair}

WriterMayBegin ==
    /\ wpc = Idle
    /\ rpc = Idle \/ Cardinality(committed) <= MaxOverlap

\* SetMaxFileSize: one store
WSetMaxFileSize ==
    /\ WriterMayBegin
    /\ \E size \in RaceSizes :
         /\ maxFileSize' = SetMaxFileSize(maxFileSize, size)
         /\ committed' = Commit(<<maxFileSize', minFileSize>>)
    /\ UNCHANGED <<call, ret, prev, minFileSize, formatLimits, wpc, rpc, generator, storage>>

\* SetMinFileSize: one store
WSetMinFileSize ==
    /\ WriterMayBegin
    /\ \E size \in RaceSizes :
         /\ minFileSize' = SetMinFileSize(minFileSize, size)
         /\ committed' = Commit(<<maxFileSize, minFileSize'>>)
    /\ UNCHANGED <<call, ret, prev, maxFileSize, formatLimits, wpc, rpc, generator, storage>>

\* SetFormatLimits: the store of the new map, then one insertion for each positive
\* limit, in the order the range over the argument yields them
WSetFormatLimits ==
    /\ WriterMayBegin
    /\ \E limits \in RaceFormatLimits :
         LET todo == SetFormatLimits(limits)
         IN /\ formatLimits' = EmptyLimits
            /\ wpc' = IF DOMAIN todo = {} THEN Idle
                      ELSE [op |-> "SetFormatLimits", todo |-> todo]
    /\ UNCHANGED <<call, ret, prev, maxFileSize, minFileSize, rpc, committed, generator, storage>>

WInsertFormatLimit ==
    /\ wpc.op = "SetFormatLimits"
    /\ \E format \in DOMAIN wpc.todo :
         LET rest == [f \in DOMAIN wpc.todo \ {format} |-> wpc.todo[f]]
         IN /\ formatLimits' = [f \in DOMAIN formatLimits \cup {format} |->
                                  IF f = format THEN wpc.todo[format] ELSE formatLimits[f]]
            /\ wpc' = IF DOMAIN rest = {} THEN Idle
                      ELSE [op |-> "SetFormatLimits", todo |-> rest]
    /\ UNCHANGED <<call, ret, prev, maxFileSize, minFileSize, rpc, committed, generator, storage>>

\* UpdateLimits: the checks pass and s.maxFileSize is stored
WUpdateLimitsMax ==
    /\ WriterMayBegin
    /\ \E max \in RaceSizes, min \in RaceSizes :
         LET limits == [MaxFileSize |-> max, MinFileSize |-> min]
         IN /\ UpdateLimitsCheck(limits) = NoError
            /\ maxFileSize' = limits.MaxFileSize
            /\ wpc' = [op |-> "UpdateLimits", limits |-> limits,
                       before |-> <<maxFileSize, minFileSize>>]
    /\ UNCHANGED <<call, ret, prev, minFileSize, formatLimits, rpc, committed, generator, storage>>

\* UpdateLimits: s.minFileSize is stored and the call returns
WUpdateLimitsMin ==
    /\ wpc.op = "UpdateLimits"
    /\ minFileSize' = wpc.limits.MinFileSize
    /\ wpc' = Idle
    /\ committed' = Commit(<<maxFileSize, minFileSize'>>)
    /\ UNCHANGED <<call, ret, prev, maxFileSize, formatLimits, rpc, generator, storage>>

Reader(op, pc, size) ==
    [op |-> op, pc |-> pc, size |-> size, max |-> Unread, min |-> Unread,
     fmax |-> Unread, fmin |-> Unread, out |-> "none"]

\* GetLimits loads s.maxFileSize, s.minFileSize, and both once more for FormatSize
RGetLimits ==
    /\ \/ rpc = Idle /\ rpc' = [Reader("GetLimits", "min", I64(0)) EXCEPT !.max = maxFileSize]
       \/ rpc.op = "GetLimits" /\ rpc.pc = "min"
            /\ rpc' = [rpc EXCEPT !.min = minFileSize, !.pc = "fmax"]
       \/ rpc.op = "GetLimits" /\ rpc.pc = "fmax"
            /\ rpc' = [rpc EXCEPT !.fmax = maxFileSize, !.pc = "fmin"]
       \/ rpc.op = "GetLimits" /\ rpc.pc = "fmin"
            /\ rpc' = [rpc EXCEPT !.fmin = minFileSize, !.pc = "done", !.out = "limits"]
    /\ UNCHANGED <<call, ret, prev, maxFileSize, minFileSize, formatLimits, wpc, committed, generator, storage>>

\* GetSupportedSizeRange loads s.minFileSize, then s.maxFileSize
RGetSupportedSizeRange ==
    /\ \/ rpc = Idle
            /\ rpc' = [Reader("GetSupportedSizeRange", "max", I64(0)) EXCEPT !.min = minFileSize]
       \/ rpc.op = "GetSupportedSizeRange" /\ rpc.pc = "max"
            /\ rpc' = [rpc EXCEPT !.max = maxFileSize, !.pc = "done", !.out = "range"]
    /\ UNCHANGED <<call, ret, prev, maxFileSize, minFileSize, formatLimits, wpc, committed, generator, storage>>

\* ValidateSize compares size with s.minFileSize, then with s.maxFileSize, and loads
\* s.maxFileSize once more for the message
RValidateSize ==
    /\ \/ rpc = Idle
            /\ \E size \in RaceSizes :
                 rpc' = IF I64Negative(size)
                        THEN [Reader("ValidateSize", "done", size) EXCEPT !.out = "invalid"]
                        ELSE IF I64Less(size, minFileSize)
                        THEN [Reader("ValidateSize", "done", size) EXCEPT
                                 !.min = minFileSize, !.out = "empty"]
                        ELSE [Reader("ValidateSize", "max", size) EXCEPT !.min = minFileSize]
       \/ rpc.op = "ValidateSize" /\ rpc.pc = "max"
            /\ rpc' = IF I64Less(maxFileSize, rpc.size)
                      THEN [rpc EXCEPT !.max = maxFileSize, !.pc = "fmax"]
                      ELSE [rpc EXCEPT !.max = maxFileSize, !.pc = "done", !.out = "nil"]
       \/ rpc.op = "ValidateSize" /\ rpc.pc = "fmax"
            /\ rpc' = [rpc EXCEPT !.fmax = maxFileSize, !.pc = "done", !.out = "too large"]
    /\ UNCHANGED <<call, ret, prev, maxFileSize, minFileSize, formatLimits, wpc, committed, generator, storage>>

\* IsValidSize: size >= s.minFileSize && size <= s.maxFileSize
RIsValidSize ==
    /\ \/ rpc = Idle
            /\ \E size \in RaceSizes :
                 rpc' = IF I64Less(size, minFileSize)
                        THEN [Reader("IsValidSize", "done", size) EXCEPT
                                 !.min = minFileSize, !.out = "false"]
                        ELSE [Reader("IsValidSize", "max", size) EXCEPT !.min = minFileSize]
       \/ rpc.op = "IsValidSize" /\ rpc.pc = "max"
            /\ rpc' = [rpc EXCEPT !.max = maxFileSize, !.pc = "done",
                          !.out = IF I64Leq(rpc.size, maxFileSize) THEN "true" ELSE "false"]
    /\ UNCHANGED <<call, ret, prev, maxFileSize, minFileSize, formatLimits, wpc, committed, generator, storage>>

\* the reader's call returns
RReturn ==
    /\ rpc # Idle
    /\ rpc.pc = "done"
    /\ rpc' = Idle
    /\ committed' = {LastCommitted}
    /\ UNCHANGED <<call, ret, prev, maxFileSize, minFileSize, formatLimits, wpc, generator, storage>>

NextRace ==
    \/ WSetMaxFileSize
    \/ WSetMinFileSize
    \/ WSetFormatLimits
    \/ WInsertFormatLimit
    \/ WUpdateLimitsMax
    \/ WUpdateLimitsMin
    \/ RGetLimits
    \/ RGetSupportedSizeRange
    \/ RValidateSize
    \/ RIsValidSize
    \/ RReturn

SpecRace == Init /\ [][NextRace]_vars

-----------------------------------------------------------------------------
(* The signatures, stated byte by byte as the design states them *)

Bytes4(d, at) == <<d[at + 1], d[at + 2], d[at + 3], d[at + 4]>>

SigWebM(d) == Len(d) >= 4 /\ d[1] = 26 /\ d[2] = 69 /\ d[3] = 223 /\ d[4] = 163

SigAVI(d) ==
    /\ Len(d) >= 12
    /\ Bytes4(d, 0) = <<82, 73, 70, 70>>
    /\ Bytes4(d, 8) = <<65, 86, 73, 32>>

SigMP4(d) ==
    /\ Len(d) >= 12
    /\ Bytes4(d, 4) = <<102, 116, 121, 112>>
    /\ Bytes4(d, 8) \in { <<109, 112, 52, 49>>, <<109, 112, 52, 50>>,
                          <<105, 115, 111, 109>>, <<100, 97, 115, 104>> }

SigMOV(d) ==
    /\ Len(d) >= 12
    /\ Bytes4(d, 4) = <<102, 116, 121, 112>>
    /\ Bytes4(d, 8) = <<113, 116, 32, 32>>

Carries(d) ==
    {f \in {MP4, WEBM, AVI, MOV} :
        \/ f = WEBM /\ SigWebM(d)
        \/ f = AVI /\ SigAVI(d)
        \/ f = MP4 /\ SigMP4(d)
        \/ f = MOV /\ SigMOV(d)}

Tag(f) == [format |-> f, err |-> NoError]

Fails(e) == [format |-> <<>>, err |-> e]

\* C1: DetectFormatByMagicNumber returns the tag, with no error, of every buffer of
\* at least 12 bytes that carries exactly one format's signature, whatever its other
\* bytes are.
C1_DetectsTheOneSignature ==
    (call.op = "DetectFormat" /\ Len(call.Data) >= 12) =>
        \A f \in {MP4, WEBM, AVI, MOV} : Carries(call.Data) = {f} => ret = Tag(f)

\* an mp4 brand behind "ftyp" is detected although the buffer starts with "RIFF"
C1_Witness ==
    /\ call.op = "DetectFormat"
    /\ Len(call.Data) = 13
    /\ Bytes4(call.Data, 0) = RIFF
    /\ Carries(call.Data) = {MP4}
    /\ ret = Tag(MP4)

\* C2: ValidateFormat reports valid = true only when the lower-cased extension of the
\* filename is one of mp4, webm, avi, mov and is the tag DetectFormatByMagicNumber
\* derives from the bytes; whenever the detection the call runs returns another tag
\* than the extension, the call fails FormatMismatch with no outcome.
C2_ValidOnlyWhenExtensionIsTheTag ==
    call.op = "ValidateFormat" =>
        LET ext == FileExtension(call.Filename)
            det == DetectFormatByMagicNumber(call.Data)
        IN /\ (~ret.result.nil /\ ret.result.IsValid) =>
                 /\ ret.err = NoError
                 /\ ext \in {MP4, WEBM, AVI, MOV}
                 /\ det = Tag(ext)
                 /\ ret.result.DetectedFormat = ext
           /\ (ret.detected.err = NoError /\ ret.detected.format # ext) =>
                 (ret.err = ErrFormatMismatch /\ ret.result.nil)
           /\ (/\ call.Filename # <<>>
               /\ ext \in {MP4, WEBM, AVI, MOV}
               /\ det.err = NoError
               /\ det.format # ext) =>
                 (ret.err = ErrFormatMismatch /\ ret.result.nil)

\* a .mov name with an mp4-brand ftyp fails FormatMismatch
C2_Witness ==
    /\ call.op = "ValidateFormat"
    /\ FileExtension(call.Filename) = MOV
    /\ SigMP4(call.Data)
    /\ ret.err = ErrFormatMismatch
    /\ ret.result.nil

ExpectedTag(d) ==
    IF SigWebM(d) THEN Tag(WEBM)
    ELSE IF SigAVI(d) THEN Tag(AVI)
    ELSE IF SigMP4(d) THEN Tag(MP4)
    ELSE IF SigMOV(d) THEN Tag(MOV)
    ELSE Fails(ErrUnrecognizedFormat)

\* C7: the signatures are checked in the order WebM, AVI, MP4/MOV and the first match
\* wins; every buffer of at least 4 bytes that matches none fails UnrecognizedFormat:
\* a RIFF buffer without "AVI ", an ftyp buffer with an unknown brand, a buffer of 4
\* to 11 bytes that does not start with the EBML signature.
C7_FirstMatchWinsElseUnrecognized ==
    (call.op = "DetectFormat" /\ Len(call.Data) >= 4) =>
        /\ ret = ExpectedTag(call.Data)
        /\ (Carries(call.Data) = {}) => ret = Fails(ErrUnrecognizedFormat)
        /\ (Len(call.Data) < 12 /\ ~SigWebM(call.Data)) => ret = Fails(ErrUnrecognizedFormat)

\* EBML followed by "ftyp" and an mp4 brand is webm
C7_Witness ==
    /\ call.op = "DetectFormat"
    /\ SigWebM(call.Data)
    /\ SigMP4(call.Data)
    /\ ret = Tag(WEBM)

\* C8: DetectFormatByMagicNumber fails IncompleteHeader, with no tag, for every
\* buffer of 0 to 3 bytes.
C8_ShortBufferIncompleteHeader ==
    (call.op = "DetectFormat" /\ Len(call.Data) < 4) => ret = Fails(ErrIncompleteHeader)

\* the first three bytes of the EBML signature alone
C8_Witness ==
    /\ call.op = "DetectFormat"
    /\ call.Data = <<26, 69, 223>>
    /\ ret.err = ErrIncompleteHeader

InSteps(r, step) == \E i \in 1..Len(r.steps) : r.steps[i] = step

\* C10 as claimed: EmptyContent for every empty buffer, UnsupportedFormat for every
\* non-empty buffer whose filename has no supported extension.
C10_AsClaimed ==
    call.op = "ValidateFormat" =>
        /\ Len(call.Data) = 0 => ret.err = ErrEmptyContent
        /\ (Len(call.Data) > 0 /\ FileExtension(call.Filename) \notin {MP4, WEBM, AVI, MOV})
              => ret.err = ErrUnsupportedFormat

\* C10, amended: ValidateFormat fails EmptyFilename for an empty filename; otherwise
\* EmptyContent for an empty buffer and IncompleteHeader for a buffer of 1 to 3 bytes;
\* otherwise, for every buffer of at least 4 bytes, UnsupportedFormat when the
\* extension is not one of mp4, webm, avi, mov, whatever the bytes are; the detection
\* runs only in calls that passed the extension check.
C10_ChecksInOrder ==
    call.op = "ValidateFormat" =>
        LET ext == FileExtension(call.Filename)
        IN /\ call.Filename = <<>> => ret.err = ErrEmptyFilename
           /\ (call.Filename # <<>> /\ Len(call.Data) = 0) => ret.err = ErrEmptyContent
           /\ (call.Filename # <<>> /\ Len(call.Data) \in 1..3)
                 => ret.err = ErrIncompleteHeader
           /\ (call.Filename # <<>> /\ Len(call.Data) >= 4
                 /\ ext \notin {MP4, WEBM, AVI, MOV})
                 => (ret.err = ErrUnsupportedFormat /\ ret.result.nil)
           /\ (InSteps(ret, "detect") \/ ret.detected # NotRun) =>
                 /\ ext \in {MP4, WEBM, AVI, MOV}
                 /\ Len(call.Data) >= 4
                 /\ ret.steps[4] = "extension"
                 /\ ret.steps[5] = "detect"
           /\ ret.err \in {ErrEmptyFilename, ErrEmptyContent, ErrIncompleteHeader,
                           ErrUnsupportedFormat} => ret.detected = NotRun

\* a .wmv name on WebM bytes is refused for its extension, the bytes never sniffed
C10_Witness ==
    /\ call.op = "ValidateFormat"
    /\ FileExtension(call.Filename) = <<"w", "m", "v">>
    /\ SigWebM(call.Data)
    /\ Len(call.Data) >= 12
    /\ ret.err = ErrUnsupportedFormat
    /\ ret.detected = NotRun

-----------------------------------------------------------------------------
(* The extractor's claims *)

Recognized(d) == Len(d) >= 12 /\ ExpectedTag(d).err = NoError

\* C5: ExtractInfo fails only with EmptyData for an empty buffer, IncompleteHeader for
\* a buffer of 1 to 11 bytes and UnrecognizedFormat when the detection fails, checked
\* in this order; for every buffer of 12 and more bytes of a recognized format it
\* returns a VideoInfo, and no slice or index of the walkers is out of range.
C5_ExtractInfoFailsOnlyOnInput ==
    call.op = "ExtractInfo" =>
        /\ Len(call.Data) = 0 => (ret.err = ErrEmptyData /\ ret.info = NilInfo)
        /\ Len(call.Data) \in 1..11 => (ret.err = ErrIncompleteHeader /\ ret.info = NilInfo)
        /\ (Len(call.Data) >= 12 /\ ~Recognized(call.Data))
              => (ret.err = ErrUnrecognizedFormat /\ ret.info = NilInfo)
        /\ Recognized(call.Data) =>
              /\ ret.err = NoError
              /\ ret.info # NilInfo
              /\ ~ret.info.panic
              /\ ret.info.Format = ExpectedTag(call.Data).format
              /\ ret.info.Filename = call.Filename
              /\ ret.info.FileSize = I64(Len(call.Data))

\* a movie header box whose size field promises 32 bytes of which the buffer holds 30:
\* the walk stops and the VideoInfo carries no duration
C5_Witness ==
    /\ call.op = "ExtractInfo"
    /\ Len(call.Data) = 42
    /\ SigMP4(call.Data)
    /\ Slice(call.Data, 12, 20) = BE32(32) \o TagMvhd
    /\ ret.err = NoError
    /\ ~ret.info.panic
    /\ WIsZero(ret.info.Duration)

ExtractOps == {"ExtractDuration", "ExtractResolution", "ExtractBitrate", "ExtractFrameRate"}

NonNegativeResult ==
    CASE call.op \in {"ExtractDuration", "ExtractBitrate"} -> ~I64Negative(ret.value)
      [] call.op = "ExtractResolution" -> ~I64Negative(ret.width) /\ ~I64Negative(ret.height)
      [] call.op = "ExtractFrameRate" -> ret.value.num >= 0
      [] OTHER -> TRUE

\* C6: for every buffer of 12 and more bytes of a recognized format, ExtractDuration,
\* ExtractResolution, ExtractBitrate and ExtractFrameRate succeed with non-negative
\* values; for a buffer of fewer than 12 bytes each of them fails.
C6_AsClaimed ==
    call.op \in ExtractOps =>
        /\ Recognized(call.Data) => (ret.err = NoError /\ ~ret.panic /\ NonNegativeResult)
        /\ Len(call.Data) < 12 => ret.err # NoError

-----------------------------------------------------------------------------
(* The claims on two calls and on the size limits *)

IsPrefixOf(a, b) == Len(a) <= Len(b) /\ SubSeq(b, 1, Len(a)) = a

\* what the call in flight got from DetectFormatByMagicNumber
Detected == IF call.op = "DetectFormat" THEN ret ELSE ret.detected

\* C9: the tag is a function of the leading bytes alone: two detections on buffers of
\* 12 and more bytes with the same first 12 bytes return the same, and a tag returned
\* for b is returned for every buffer that has b as a prefix, whether the detection
\* is called directly or by ValidateFormat under any filename and content type.
C9_TagOfLeadingBytesOnly ==
    (call # Idle /\ prev # NoRet /\ Detected # NotRun) =>
        /\ (/\ Len(prev.Data) >= 12
            /\ Len(call.Data) >= 12
            /\ Prefix(prev.Data, 12) = Prefix(call.Data, 12)) => Detected = prev.ret
        /\ (prev.ret.err = NoError /\ IsPrefixOf(prev.Data, call.Data))
              => Detected = prev.ret

\* "RIFF", a size and "AVI " were avi; the same 12 bytes and one more are avi inside
\* ValidateFormat for v.mp4
C9_Witness ==
    /\ call.op = "ValidateFormat"
    /\ prev # NoRet
    /\ Len(prev.Data) = 12
    /\ prev.ret = Tag(AVI)
    /\ Len(call.Data) = 13
    /\ call.Data[13] = 255
    /\ IsPrefixOf(prev.Data, call.Data)
    /\ call.Filename = <<"v", ".", "m", "p", "4">>
    /\ ret.detected = Tag(AVI)

\* C3: after any sequence of SetMaxFileSize, SetMinFileSize, SetFormatLimits and
\* UpdateLimits calls the limits satisfy min_bytes < max_bytes.
C3_AsClaimed == I64Less(minFileSize, maxFileSize)

\* C4: a reader that runs while the writer writes uses a (max, min) pair the manager
\* held before or after a call of the writer (the call under way included), never
\* the max of one such pair with the min of another.
C4_AsClaimed ==
    (rpc # Idle /\ rpc.pc = "done" /\ rpc.max # Unread /\ rpc.min # Unread) =>
        \/ <<rpc.max, rpc.min>> \in committed
        \/ /\ wpc.op = "UpdateLimits"
           /\ <<rpc.max, rpc.min>> = <<wpc.limits.MaxFileSize, wpc.limits.MinFileSize>>

-----------------------------------------------------------------------------
(* The claims on the size validations *)

\* C11 (as claimed): ValidateSize decides NegativeSize, EmptySize, TooLarge, success in
\* this order, and under every configuration size = 0 fails EmptySize, size = max
\* succeeds and size = max + 1 fails TooLarge.
C11_AsClaimed ==
    call.op = "ValidateSize" =>
        /\ call.size = I64(0) => ret.err = ErrEmptySize
        /\ call.size = maxFileSize => ret.err = NoError
        /\ (maxFileSize # I64Max /\ call.size = WAdd(maxFileSize, I64(1), 8))
              => ret.err = ErrTooLarge

\* C11: ValidateSize returns exactly one outcome, decided in the order NegativeSize
\* (size < 0), EmptySize (size < min), TooLarge (size > max), success; size = 0 fails
\* EmptySize when min >= 1 and succeeds when min = 0, size = max succeeds when
\* min <= max, and size = max + 1 fails TooLarge when min <= max + 1.
C11_DecidedInOrder ==
    call.op = "ValidateSize" =>
        LET size == call.size
            min == minFileSize
            max == maxFileSize
        IN /\ I64Negative(size) => ret.err = ErrNegativeSize
           /\ (~I64Negative(size) /\ I64Less(size, min)) => ret.err = ErrEmptySize
           /\ (~I64Negative(size) /\ I64Leq(min, size) /\ I64Less(max, size))
                 => ret.err = ErrTooLarge
           /\ (~I64Negative(size) /\ I64Leq(min, size) /\ I64Leq(size, max))
                 => ret = SizeOK
           /\ (size = I64(0) /\ I64Leq(I64(1), min)) => ret.err = ErrEmptySize
           /\ (size = I64(0) /\ min = I64(0)) => ret.err = NoError
           /\ (size = max /\ I64Leq(min, max)) => ret.err = NoError
           /\ (max # I64Max /\ size = WAdd(max, I64(1), 8) /\ I64Leq(min, size))
                 => ret.err = ErrTooLarge

\* a manager whose minimum was set to 0 accepts a file of 0 bytes
C11_Witness ==
    /\ call.op = "ValidateSize"
    /\ minFileSize = I64(0)
    /\ call.size = I64(0)
    /\ ret = SizeOK

\* C12: ValidateSizeForFormat fails NegativeSize and EmptySize as ValidateSize does;
\* then a format with an override is measured against the override alone and a format
\* without one gets the result of ValidateSize.
C12_OverrideOrGlobalNeverBoth ==
    call.op = "ValidateSizeForFormat" =>
        LET size == call.size
            global == ValidateSize(minFileSize, maxFileSize, size)
        IN /\ global.err \in {ErrNegativeSize, ErrEmptySize} => ret = global
           /\ call.format \notin DOMAIN formatLimits => ret = global
           /\ (/\ call.format \in DOMAIN formatLimits
               /\ ~I64Negative(size)
               /\ I64Leq(minFileSize, size))
                 => /\ I64Less(formatLimits[call.format], size)
                         => (ret.err = ErrTooLarge /\ ret.format = call.format)
                    /\ I64Leq(size, formatLimits[call.format]) => ret = SizeOK
           /\ formatLimits = EmptyLimits => ret = global

\* an override of 2 GiB for mp4 admits 2 GiB where the global maximum is smaller
C12_Witness ==
    /\ call.op = "ValidateSizeForFormat"
    /\ call.format = MP4
    /\ MP4 \in DOMAIN formatLimits
    /\ formatLimits[MP4] = GiB2
    /\ I64Less(maxFileSize, GiB2)
    /\ call.size = GiB2
    /\ ret = SizeOK

RECURSIVE MathSum(_, _)
\* the sum of sizes[1..i], none negative, in 10 digits
MathSum(sizes, i) == IF i = 0 THEN WZero(10) ELSE WAdd(MathSum(sizes, i - 1), sizes[i], 10)

Rejected(sizes) ==
    { i \in 1..Len(sizes) : ValidateSize(minFileSize, maxFileSize, sizes[i]).err # NoError }

FirstRejected(sizes) == CHOOSE i \in Rejected(sizes) : \A j \in Rejected(sizes) : i <= j

\* C13: ValidateBatchSizes fails on the first element ValidateSize rejects, naming its
\* position; if none is rejected it fails BatchTooLarge exactly when the mathematical
\* sum of the sizes exceeds 10 times the maximum, and succeeds otherwise.
C13_AsClaimed ==
    call.op = "ValidateBatchSizes" =>
        IF Rejected(call.sizes) # {}
        THEN LET i == FirstRejected(call.sizes)
             IN /\ ret.index = i
                /\ ret.err = ValidateSize(minFileSize, maxFileSize, call.sizes[i]).err
        ELSE IF WLess(WMulSmall(maxFileSize, 10, 10), MathSum(call.sizes, Len(call.sizes)))
             THEN ret.err = ErrBatchTooLarge
             ELSE ret.err = NoError

DigitValue(c) == CHOOSE d \in 0..9 : DigitChar(d) = c

IsDigits(chars) ==
    /\ chars # <<>>
    /\ \A i \in 1..Len(chars) : \E d \in 0..9 : DigitChar(d) = chars[i]

RECURSIVE SmallValue(_, _, _)
\* the number that chars[lo..hi] write, at most four decimal digits
SmallValue(chars, lo, hi) ==
    IF hi < lo THEN 0 ELSE SmallValue(chars, lo, hi - 1) * 10 + DigitValue(chars[hi])

RECURSIVE ParseDigits(_, _)
\* the number that the first i decimal digits of chars write, in 10 digits of base 256,
\* read four decimal digits at a time
ParseDigits(chars, i) ==
    IF i <= 4 THEN WFromInt(SmallValue(chars, 1, i), 10)
    ELSE WAdd(WMulSmall(ParseDigits(chars, i - 4), 10000, 10),
              WFromInt(SmallValue(chars, i - 3, i), 10), 10)

\* the (exponent of the) largest unit not above size, 0 below 1024
UnitExponent(size) ==
    IF I64Negative(size) THEN 0
    ELSE IF WLeq(Pow2(40, 8), size) THEN 40
    ELSE IF WLeq(Pow2(30, 8), size) THEN 30
    ELSE IF WLeq(Pow2(20, 8), size) THEN 20
    ELSE IF WLeq(Pow2(10, 8), size) THEN 10
    ELSE 0

UnitName(e) ==
    CASE e = 40 -> <<" ", "T", "B">> [] e = 30 -> <<" ", "G", "B">>
      [] e = 20 -> <<" ", "M", "B">> [] e = 10 -> <<" ", "K", "B">>
      [] OTHER -> <<" ", "B">>

\* str writes size as its exact integer and " B"
WritesBytes(str, size) ==
    LET number == SubSeq(str, 1, Len(str) - 2)
        digits == IF I64Negative(size) THEN Tail(number) ELSE number
    IN /\ Len(str) >= 3
       /\ SubSeq(str, Len(str) - 1, Len(str)) = <<" ", "B">>
       /\ I64Negative(size) => number[1] = "-"
       /\ IsDigits(digits)
       /\ (Len(digits) > 1 => digits[1] # "0")
       /\ ParseDigits(digits, Len(digits))
             = WResize(IF I64Negative(size) THEN WSub(WZero(8), size, 8) ELSE size, 10)

\* str writes size / 2^e with two decimals, less than a hundredth away, and the unit
WritesInUnit(str, size, e) ==
    LET number == SubSeq(str, 1, Len(str) - 3)
        whole == SubSeq(number, 1, Len(number) - 3)
        cents == SubSeq(number, Len(number) - 1, Len(number))
        h == ParseDigits(whole \o cents, Len(whole) + 2)
        written == WShiftLeft(h, e)
        exact == WMulSmall(size, 100, 10)
        off == IF WLess(written, exact) THEN WSub(exact, written, 10)
               ELSE WSub(written, exact, 10)
    IN /\ Len(str) >= 7
       /\ SubSeq(str, Len(str) - 2, Len(str)) = UnitName(e)
       /\ number[Len(number) - 2] = "."
       /\ IsDigits(whole)
       /\ IsDigits(cents)
       /\ (Len(whole) > 1 => whole[1] # "0")
       /\ WLess(off, Pow2(e, 10))

\* C14: FormatSize(n) writes n in the largest of the units KB, MB, GB, TB (1024 and its
\* powers) that does not exceed n, with two decimals, and every n below 1024 as its
\* exact integer and " B"; 1023 is "1023 B", 1024 "1.00 KB" and 2 * 1024^3 "2.00 GB".
C14_LargestUnitTwoDecimals ==
    call.op = "FormatSize" =>
        /\ UnitExponent(call.size) = 0 => WritesBytes(ret, call.size)
        /\ UnitExponent(call.size) # 0
              => WritesInUnit(ret, call.size, UnitExponent(call.size))
        /\ call.size = I64(1023) => ret = <<"1", "0", "2", "3", " ", "B">>
        /\ call.size = I64(1024) => ret = <<"1", ".", "0", "0", " ", "K", "B">>
        /\ call.size = GiB2 => ret = <<"2", ".", "0", "0", " ", "G", "B">>

\* 1024^4 - 1 bytes are written in GB, as "1024.00 GB"
C14_Witness ==
    /\ call.op = "FormatSize"
    /\ call.size = WSub(TB, I64(1), 8)
    /\ ret = <<"1", "0", "2", "4", ".", "0", "0", " ", "G", "B">>

-----------------------------------------------------------------------------
(* The claim on the content types *)

\* C15: ValidateContentType succeeds exactly for video/mp4, video/webm, video/avi,
\* video/x-msvideo and video/quicktime, matched as exact strings, and fails for the
\* empty string and for every other string.
C15_ExactlyTheFiveContentTypes ==
    call.op = "ValidateContentType" =>
        /\ ret.err = NoError
              <=> \/ call.ContentType = "video/mp4"
                  \/ call.ContentType = "video/webm"
                  \/ call.ContentType = "video/avi"
                  \/ call.ContentType = "video/x-msvideo"
                  \/ call.ContentType = "video/quicktime"
        /\ call.ContentType = "" => ret.err = ErrEmptyContentType

\* the alternative content type of AVI is accepted
C15_Witness ==
    /\ call.op = "ValidateContentType"
    /\ call.ContentType = "video/x-msvideo"
    /\ ret.err = NoError

-----------------------------------------------------------------------------
(* The claims on the thumbnail generator *)

\* x >= 0 on float64: false for NaN
FloatNonNegative(x) == ~x.nan /\ x.quarters >= 0

\* C16 (as claimed): ValidateOptions accepts options exactly when width is in
\* [64, 1920], height in [64, 1080], format is jpeg or png, quality is in [1, 100] if
\* the format is jpeg, and time_offset >= 0; of several invalid fields it reports the
\* first in the order width, height, format, quality, time_offset.
C16_AsClaimed ==
    (call.op = "ValidateOptions" /\ call.Options # NilOptions) =>
        LET o == call.Options
            widthOK == 64 <= o.Width /\ o.Width <= 1920
            heightOK == 64 <= o.Height /\ o.Height <= 1080
            formatOK == o.Format \in {"jpeg", "png"}
            qualityOK == o.Format = "jpeg" => (1 <= o.Quality /\ o.Quality <= 100)
            offsetOK == FloatNonNegative(o.TimeOffset)
        IN ret.err = CASE ~widthOK -> ErrWidthOutOfRange
                       [] widthOK /\ ~heightOK -> ErrHeightOutOfRange
                       [] widthOK /\ heightOK /\ ~formatOK -> ErrUnsupportedImageFormat
                       [] widthOK /\ heightOK /\ formatOK /\ ~qualityOK
                            -> ErrQualityOutOfRange
                       [] widthOK /\ heightOK /\ formatOK /\ qualityOK /\ ~offsetOK
                            -> ErrNegativeOffset
                       [] OTHER -> NoError

\* the options GetDefaultOptions is to return
DefaultsAsClaimed ==
    [Width |-> 320, Height |-> 240, Quality |-> 80, Format |-> "jpeg",
     TimeOffset |-> Float(0), KeepAspect |-> TRUE]

\* the options a GenerateFromVideo call is to use
OptionsUsed == IF call.Options = NilOptions THEN DefaultsAsClaimed ELSE call.Options

\* the bytes carry a signature (at least 4 bytes, and one of the four formats)
RecognizedVideo(d) == Len(d) >= 4 /\ ExpectedTag(d).err = NoError

\* C17: GenerateFromVideo fails EmptyVideoData on empty bytes; otherwise it fails
\* UnrecognizedFormat on unrecognized bytes, whatever the options; otherwise missing
\* options are replaced by the defaults (320x240, quality 80, jpeg, offset 0,
\* keep_aspect true) and ValidateOptions decides.  On success the result's width,
\* height, format and time_offset are those of the options used and file_size is the
\* length of image_bytes.
C17_ChecksInOrderThenResult ==
    call.op = "GenerateFromVideo" =>
        /\ Len(call.VideoData) = 0
              => (ret.err = ErrEmptyVideoData /\ ret.result = NilThumbnail)
        /\ (Len(call.VideoData) > 0 /\ ~RecognizedVideo(call.VideoData))
              => (ret.err = ErrUnrecognizedVideo /\ ret.result = NilThumbnail)
        /\ RecognizedVideo(call.VideoData)
              => /\ ret.err = ValidateOptions(Generator, OptionsUsed)
                 /\ ret.err # NoError => ret.result = NilThumbnail
                 /\ ret.err = NoError
                       => /\ ret.result.Width = OptionsUsed.Width
                          /\ ret.result.Height = OptionsUsed.Height
                          /\ ret.result.Format = OptionsUsed.Format
                          /\ ret.result.TimeOffset = OptionsUsed.TimeOffset
                          /\ ret.result.FileSize = I64(Len(ret.result.ImageData))
                          /\ Len(ret.result.ImageData) > 0

\* a request without options gets a thumbnail of 320 x 240 in jpeg
C17_Witness ==
    /\ call.op = "GenerateFromVideo"
    /\ call.Options = NilOptions
    /\ ret.err = NoError
    /\ ret.result.Width = 320
    /\ ret.result.Height = 240
    /\ ret.result.Format = "jpeg"
    /\ ret.result.FileSize = I64(5)

\* whether the call has a result to hand out
HasResult ==
    IF call.op = "GenerateMultiple" THEN ret.results # NilThumbnails
    ELSE ret.result # NilThumbnail

\* C18: in GenerateFromVideo, GenerateMultiple and CreatePlaceholder a raster is built
\* and encoded only from options that ValidateOptions has accepted before, and a
\* failed validation ends the call with an error and no result.
C18_ValidatedBeforeSynthesis ==
    call.op \in {"GenerateFromVideo", "GenerateMultiple", "CreatePlaceholder"} =>
        \A i \in 1..Len(ret.steps) :
            /\ ret.steps[i].step \in {"NewRGBA", "Encode"}
                  => /\ \E j \in 1..(i - 1) :
                           ret.steps[j] = Validated(ret.steps[i].options, NoError)
                     /\ ValidateOptions(Generator, ret.steps[i].options) = NoError
            /\ (ret.steps[i].step = "ValidateOptions" /\ ret.steps[i].err # NoError)
                  => /\ i = Len(ret.steps)
                     /\ ret.err # NoError
                     /\ ~HasResult

\* the second offset's options fail after the first offset's thumbnail was made
C18_Witness ==
    /\ call.op = "GenerateMultiple"
    /\ Len(ret.steps) = 4
    /\ ret.steps[3].step = "Encode"
    /\ ret.steps[4].step = "ValidateOptions"
    /\ ret.steps[4].err = ErrNegativeOffset
    /\ ret.results = NilThumbnails

\* the options GenerateMultiple is to use for offset i of the call
CloneFor(i) == [call.Options EXCEPT !.TimeOffset = call.TimeOffsets[i]]

\* the case of C19: recognized bytes, valid options, non-negative offsets
C19_Case ==
    /\ call.op = "GenerateMultiple"
    /\ RecognizedVideo(call.VideoData)
    /\ call.Options # NilOptions
    /\ ValidateOptions(Generator, call.Options) = NoError
    /\ \A i \in 1..Len(call.TimeOffsets) : FloatNonNegative(call.TimeOffsets[i])

\* one result per offset, in the input order, of the options' width, height and format
OneResultPerOffset ==
    /\ ret.err = NoError
    /\ ~ret.panic
    /\ Len(ret.results) = Len(call.TimeOffsets)
    /\ \A i \in 1..Len(call.TimeOffsets) :
          /\ ret.results[i].TimeOffset = call.TimeOffsets[i]
          /\ ret.results[i].Width = call.Options.Width
          /\ ret.results[i].Height = call.Options.Height
          /\ ret.results[i].Format = call.Options.Format

\* C19 (as claimed): with recognized bytes and valid options, GenerateMultiple returns
\* for any list of N non-negative offsets exactly N results, in the input order, result
\* i carrying offset i and the options' width, height and format.
C19_AsClaimed == C19_Case => OneResultPerOffset

\* C19: with recognized bytes and valid options, GenerateMultiple returns for any list
\* of N >= 1 non-negative offsets exactly N results, in the input order, result i
\* carrying offset i and the options' width, height and format; for the empty list it
\* returns no results and the error of an empty offset list.
C19_OneResultPerOffsetUnlessNone ==
    C19_Case =>
        IF Len(call.TimeOffsets) = 0
        THEN ret.err = ErrEmptyOffsets /\ ret.results = NilThumbnails
        ELSE OneResultPerOffset

\* two offsets, the later one first, give two results in that order
C19_Witness ==
    /\ C19_Case
    /\ call.TimeOffsets = <<Float(5), Float(0)>>
    /\ Len(ret.results) = 2
    /\ ret.results[1].TimeOffset = Float(5)
    /\ ret.results[2].TimeOffset = Float(0)

\* the call GenerateFromVideo(bytes, clone for offset i) fails
OffsetFails(i) ==
    \/ ~RecognizedVideo(call.VideoData)
    \/ ValidateOptions(Generator, CloneFor(i)) # NoError

\* the first offset of the call that fails
FirstFailing ==
    CHOOSE k \in 1..Len(call.TimeOffsets) :
        OffsetFails(k) /\ \A j \in 1..(k - 1) : ~OffsetFails(j)

\* chars write, with one decimal, a number within 0.05 of x, or NaN for a NaN
Identifies(chars, x) ==
    LET neg == chars # <<>> /\ chars[1] = "-"
        body == IF neg THEN Tail(chars) ELSE chars
        n == Len(body)
    IN IF x.nan THEN chars = <<"N", "a", "N">>
       ELSE
       /\ n >= 3
       /\ body[n - 1] = "."
       /\ IsDigits(SubSeq(body, 1, n - 2))
       /\ IsDigits(<<body[n]>>)
       /\ LET tenths == SmallValue(body, 1, n - 2) * 10 + DigitValue(body[n])
              a == IF x.quarters < 0 THEN -x.quarters ELSE x.quarters
          IN /\ 5 * a - 2 * tenths \in -1..1
             /\ neg <=> x.quarters < 0

\* the ValidateOptions steps of the call
ValidationSteps == SelectSeq(ret.steps, LAMBDA s : s.step = "ValidateOptions")

\* C20: GenerateMultiple takes the offsets in input order, each on its own copy of the
\* options, and stops at the first offset whose GenerateFromVideo call fails: the
\* error names that offset and wraps that call's error, no results are returned (those
\* already made are dropped) and no later offset is processed.
C20_AbortsAtFirstFailure ==
    (/\ call.op = "GenerateMultiple"
     /\ call.Options # NilOptions
     /\ Len(call.VideoData) > 0
     /\ \E i \in 1..Len(call.TimeOffsets) : OffsetFails(i)) =>
        LET k == FirstFailing
        IN /\ ret.err = ErrOffsetFailed
           /\ ~ret.panic
           /\ ret.results = NilThumbnails
           /\ Identifies(ret.offset, call.TimeOffsets[k])
           /\ ret.cause.err = IF RecognizedVideo(call.VideoData)
                              THEN ValidateOptions(Generator, CloneFor(k))
                              ELSE ErrUnrecognizedVideo
           /\ ret.cause.result = NilThumbnail
           /\ ret.after = call.Options
           /\ IF RecognizedVideo(call.VideoData)
              THEN /\ Len(ValidationSteps) = k
                   /\ \A j \in 1..k : ValidationSteps[j].options = CloneFor(j)
              ELSE ret.steps = <<>>

\* the second of two offsets is negative: the first one's thumbnail is dropped
C20_Witness ==
    /\ call.op = "GenerateMultiple"
    /\ call.Options # NilOptions
    /\ call.TimeOffsets = <<Float(5), Float(-1)>>
    /\ ret.err = ErrOffsetFailed
    /\ ret.offset = <<"-", "0", ".", "2">>
    /\ ret.cause.err = ErrNegativeOffset
    /\ Len(ret.steps) = 4
    /\ ret.results = NilThumbnails

\* C21 (as claimed): for positive arguments CalculateAspectRatio returns a size inside
\* the destination box with one side equal to the box's: (dst_w, floor(dst_w * src_h /
\* src_w)) when src_w / src_h > dst_w / dst_h, and (floor(dst_h * src_w / src_h), dst_h)
\* otherwise.
C21_AsClaimed ==
    call.op = "CalculateAspectRatio" =>
        /\ ret.newWidth <= call.targetWidth
        /\ ret.newHeight <= call.targetHeight
        /\ IF call.originalWidth * call.targetHeight
                 > call.targetWidth * call.originalHeight
           THEN /\ ret.newWidth = call.targetWidth
                /\ ret.newHeight
                     = (call.targetWidth * call.originalHeight) \div call.originalWidth
           ELSE /\ ret.newHeight = call.targetHeight
                /\ ret.newWidth
                     = (call.targetHeight * call.originalWidth) \div call.originalHeight

-----------------------------------------------------------------------------
(* The claims on the upload service *)

RECURSIVE SentSize(_, _)
\* the sizes of the first i parts the client sent
SentSize(parts, i) ==
    IF i = 0 THEN 0 ELSE SentSize(parts, i - 1) + WToInt(parts[i].Size)

\* C23 (as claimed): after InitMultipartUpload, UploadPart for the parts 1..n and
\* CompleteMultipartUpload with exactly those parts, the object stored under the
\* session's ObjectName exists and its stored size is the sum of the sizes of the parts
\* sent, which is also the Size of the UploadResult.
C23_AsClaimed ==
    (/\ call.op = "CompleteMultipartUpload"
     /\ ret.err = NoError
     /\ call.ObjectName = session.ObjectName
     /\ call.Parts = CompletedParts(session.Parts)) =>
        /\ session.ObjectName \in DOMAIN objects
        /\ Len(objects[session.ObjectName].data) = SentSize(session.Parts, Len(session.Parts))
        /\ ret.result.Size = I64(SentSize(session.Parts, Len(session.Parts)))

-----------------------------------------------------------------------------
(* The claims on the video service *)

\* the error of the call's step of that name, once the video's object is stored
StepError(name) ==
    LET i == CHOOSE k \in 1..Len(ret.steps) :
                 /\ ret.steps[k].step = name
                 /\ name = "UploadFile" => k > 4
    IN ret.steps[i].err

\* the upload passed the size and format validation and its video object is stored
VideoStored ==
    /\ call.op = "UploadVideo"
    /\ Len(ret.steps) >= 4
    /\ ret.steps[4] = [step |-> "UploadFile", err |-> NoError]

\* the bucket holds the thumbnail of the call's video
ThumbnailInBucket ==
    \E n \in DOMAIN objects : n.fileName = [thumbnail |-> call.videoID]

\* C22: in UploadVideo, once the size and the format are validated and the video's
\* object is stored, a failure of ExtractInfo, of GenerateFromVideo or of the
\* thumbnail's upload does not fail the call: the response has code 0, with zero
\* duration, width and height after a failed extraction and with an empty thumbnail
\* path after a failed synthesis or thumbnail upload.
C22_LateFailuresDoNotFailTheUpload ==
    VideoStored =>
        /\ ret.Code = 0
        /\ StepError("ExtractInfo") # NoError
              => /\ ret.Video.Duration = WZero(8)
                 /\ ret.Video.Width = WZero(8)
                 /\ ret.Video.Height = WZero(8)
        /\ (StepError("GenerateFromVideo") # NoError \/ StepError("UploadFile") # NoError)
              => (ret.Video.ThumbnailPath = NoName /\ ~ThumbnailInBucket)
        /\ (StepError("GenerateFromVideo") = NoError /\ StepError("UploadFile") = NoError)
              => (ret.Video.ThumbnailPath = [thumbnail |-> call.videoID]
                  /\ ThumbnailInBucket)

\* a WebM of 4 bytes is stored; its metadata cannot be extracted and the storage
\* refuses its thumbnail
C22_Witness ==
    /\ VideoStored
    /\ StepError("ExtractInfo") = ErrIncompleteHeader
    /\ StepError("UploadFile") = "UploadFailed"
    /\ ret.Code = 0
    /\ ret.Video.ThumbnailPath = NoName

-----------------------------------------------------------------------------
(* The claims on the container walkers *)

WalkedAsMP4(d) == Recognized(d) /\ ExpectedTag(d).format \in {MP4, MOV}

\* C24: for every buffer the box walker of extractMP4Info terminates: every iteration
\* reads a box header that lies inside the buffer and either stops, which it does
\* exactly when the size field is 0 or larger than the bytes that remain, or moves the
\* offset forward by the non-zero size to a box body that lies inside the buffer; the
\* offset never passes the buffer's length, and the call returns the VideoInfo with no
\* error and no slice out of range.
C24_WalkStaysInsideTheBuffer ==
    (call.op = "ExtractInfo" /\ WalkedAsMP4(call.Data)) =>
        LET data == call.Data
            steps == MP4Steps(data, 0)
        IN /\ ret.err = NoError
           /\ ret.info # NilInfo
           /\ ~ret.info.panic
           /\ Len(steps) <= Len(data)
           /\ \A i \in 1..Len(steps) :
                LET step == steps[i]
                    remaining == WFromInt(Len(data) - step.offset, 4)
                IN /\ step.offset >= 0
                   /\ step.offset + 8 <= Len(data)
                   /\ step.stops <=> (WIsZero(step.boxSize) \/ WLess(remaining, step.boxSize))
                   /\ step.stops => i = Len(steps)
                   /\ ~step.stops =>
                        /\ WToInt(step.boxSize) > 0
                        /\ step.offset + WToInt(step.boxSize) <= Len(data)
                        /\ i < Len(steps) =>
                             steps[i + 1].offset = step.offset + WToInt(step.boxSize)

\* a walk over the ftyp box, a movie header and a track header that ends at a sample
\* description whose size field exceeds the bytes left: the duration and the size
\* gathered before it are returned, the codecs stay empty
C24_Witness ==
    /\ call.op = "ExtractInfo"
    /\ WalkedAsMP4(call.Data)
    /\ LET steps == MP4Steps(call.Data, 0)
       IN /\ Len(steps) = 4
          /\ steps[4].stops
          /\ ~WIsZero(steps[4].boxSize)
          /\ Slice(call.Data, steps[4].offset + 4, steps[4].offset + 8) = TagStsd
    /\ ret.err = NoError
    /\ ~ret.info.panic
    /\ ~WIsZero(ret.info.Duration)
    /\ ~WIsZero(ret.info.Width)
    /\ ret.info.VideoCodec = ""

\* the iterations of the walk over d that hand a movie header box of 32 bytes and more
\* with a non-zero timescale to extractMovieHeader
MovieHeaders(d) ==
    LET steps == MP4Steps(d, 0)
    IN { i \in 1..Len(steps) :
           /\ ~steps[i].stops
           /\ Slice(d, steps[i].offset + 4, steps[i].offset + 8) = TagMvhd
           /\ WToInt(steps[i].boxSize) >= 32
           /\ ~WIsZero(BigEndianUint32(Slice(d, steps[i].offset + 20, steps[i].offset + 24))) }

\* q is the whole number of nanoseconds in duration / timeScale seconds, and an int64
NanosecondsOf(q, duration, timeScale) ==
    LET exact == WMul(duration, Second, 13)
    IN /\ ~I64Negative(q)
       /\ WLeq(WMul(q, timeScale, 13), exact)
       /\ WLess(exact, WMul(WAdd(q, WFromInt(1, 8), 9), timeScale, 13))

\* C25: when the walk meets a top-level mvhd box of 32 bytes and more whose timescale,
\* the big-endian uint32 at box offset 20, is not 0, Duration is the duration, the
\* big-endian uint32 at box offset 24, divided by the timescale, in seconds to the
\* whole nanosecond and without overflow of int64; a walk that meets no such box
\* (timescale 0, a box under 32 bytes, no mvhd box) leaves Duration as it was, 0.
C25_MovieHeaderDuration ==
    (call.op = "ExtractInfo" /\ WalkedAsMP4(call.Data)) =>
        LET d == call.Data
            steps == MP4Steps(d, 0)
            headers == MovieHeaders(d)
        IN IF headers = {} THEN WIsZero(ret.info.Duration)
           ELSE LET last == CHOOSE i \in headers : \A j \in headers : j <= i
                    at == steps[last].offset
                IN NanosecondsOf(ret.info.Duration,
                                 BigEndianUint32(Slice(d, at + 24, at + 28)),
                                 BigEndianUint32(Slice(d, at + 20, at + 24)))

\* a movie header with timescale 1000 and duration 0xFFFFFFFF: 4294967.295 seconds
C25_Witness ==
    /\ call.op = "ExtractInfo"
    /\ WalkedAsMP4(call.Data)
    /\ MovieHeaders(call.Data) # {}
    /\ \E i \in MovieHeaders(call.Data) :
         LET at == MP4Steps(call.Data, 0)[i].offset
         IN /\ Slice(call.Data, at + 20, at + 24) = BE32(1000)
            /\ Slice(call.Data, at + 24, at + 28) = U32Max
    /\ ret.info.Duration = WMulSmall(I64OfU32(<<255, 255, 255, 255>>), 1000000, 8)

WalkedAsAVI(d) == Recognized(d) /\ ExpectedTag(d).format = AVI

\* C26: the AVI walker uses the first "avih" of the buffer, and only if 56 bytes and
\* more remain from the tag; of the chunk data, which starts 8 bytes after the tag, it
\* reads the little-endian uint32 fields: FrameRate is 1000000 / microSecPerFrame
\* (offset 0) when that is not 0, Duration is totalFrames (offset 16) / FrameRate in
\* whole seconds when both are not 0, Width and Height are the fields at 32 and 36;
\* with no tag or fewer than 56 bytes from it the four fields stay zero.
C26_AsClaimed ==
    (call.op = "ExtractInfo" /\ WalkedAsAVI(call.Data)) =>
        LET d == call.Data
            avihPos == BytesIndex(d, <<97, 118, 105, 104>>)
            Field(at) == LittleEndianUint32(Slice(d, avihPos + 8 + at, avihPos + 12 + at))
        IN IF avihPos # -1 /\ avihPos + 56 <= Len(d)
           THEN LET microSecPerFrame == Field(0)
                    totalFrames == Field(16)
                    seconds == WDivSmall(WMul(totalFrames, microSecPerFrame, 13), 1000000)
                IN /\ ret.info.FrameRate =
                        IF WIsZero(microSecPerFrame) THEN FrameRateZero
                        ELSE [num |-> 1000000, den |-> microSecPerFrame]
                   /\ WResize(ret.info.Duration, 13) =
                        IF WIsZero(microSecPerFrame) \/ WIsZero(totalFrames) THEN WZero(13)
                        ELSE WMul(seconds, Second, 13)
                   /\ ~I64Negative(ret.info.Duration)
                   /\ ret.info.Width = I64OfU32(Field(32))
                   /\ ret.info.Height = I64OfU32(Field(36))
           ELSE /\ ret.info.FrameRate = FrameRateZero
                /\ WIsZero(ret.info.Duration)
                /\ WIsZero(ret.info.Width)
                /\ WIsZero(ret.info.Height)

WalkedAsWebM(d) == Recognized(d) /\ ExpectedTag(d).format = WEBM

\* C27: for every buffer detected as webm ExtractInfo returns Duration 0, Width 0,
\* Height 0 and empty codecs, whether or not the element IDs of Duration (44 89),
\* PixelWidth (B0) and PixelHeight (BA) occur in the bytes.
C27_WebMFieldsStayZero ==
    (call.op = "ExtractInfo" /\ WalkedAsWebM(call.Data)) =>
        /\ ret.err = NoError
        /\ WIsZero(ret.info.Duration)
        /\ WIsZero(ret.info.Width)
        /\ WIsZero(ret.info.Height)
        /\ ret.info.VideoCodec = ""
        /\ ret.info.AudioCodec = ""

\* a WebM buffer that holds a PixelWidth element of 1920 (B0 82 07 80)
C27_Witness ==
    /\ call.op = "ExtractInfo"
    /\ WalkedAsWebM(call.Data)
    /\ findWebMElement(call.Data, <<176>>) # -1
    /\ BytesContains(call.Data, <<176, 130, 7, 128>>)
    /\ ret.err = NoError
    /\ WIsZero(ret.info.Width)

-----------------------------------------------------------------------------
(* The claims on the size limits' mutators *)

limitFields == <<maxFileSize, minFileSize, formatLimits>>

LimitsValid ==
    /\ I64Positive(maxFileSize)
    /\ ~I64Negative(minFileSize)
    /\ \A f \in DOMAIN formatLimits : I64Positive(formatLimits[f])

\* what a call of a setter does to the limits
SetterStep ==
    /\ (call'.op = "SetMaxFileSize" /\ call = Idle) =>
          IF I64Positive(call'.size)
          THEN maxFileSize' = call'.size /\ UNCHANGED <<minFileSize, formatLimits>>
          ELSE UNCHANGED limitFields
    /\ (call'.op = "SetMinFileSize" /\ call = Idle) =>
          IF ~I64Negative(call'.size)
          THEN minFileSize' = call'.size /\ UNCHANGED <<maxFileSize, formatLimits>>
          ELSE UNCHANGED limitFields
    /\ (call'.op = "SetFormatLimits" /\ call = Idle) =>
          /\ DOMAIN formatLimits' =
                {f \in DOMAIN call'.limits : I64Positive(call'.limits[f])}
          /\ \A f \in DOMAIN formatLimits' : formatLimits'[f] = call'.limits[f]
          /\ UNCHANGED <<maxFileSize, minFileSize>>

\* C28: in every state reached from NewSizeLimitManager by calls of SetMaxFileSize,
\* SetMinFileSize, SetFormatLimits and UpdateLimits, max > 0, min >= 0 and every stored
\* per-format limit is > 0; SetMaxFileSize(size <= 0) and SetMinFileSize(size < 0)
\* change no limit, and SetFormatLimits replaces the whole map by the entries of its
\* argument that have a positive limit.
C28_LimitsStayValid == [] LimitsValid /\ [][SetterStep]_vars

\* SetFormatLimits was given a map with a limit of 0 for one format and a positive
\* limit for the other, and the manager holds the positive one alone
C28_Witness ==
    /\ call.op = "SetFormatLimits"
    /\ DOMAIN call.limits = LimitFormats
    /\ \E f \in LimitFormats : WIsZero(call.limits[f])
    /\ Cardinality(DOMAIN formatLimits) = 1
    /\ LimitsValid
    /\ maxFileSize = I64(1)
    /\ minFileSize = I64Max

\* what a call of UpdateLimits does to the limits
UpdateLimitsStep ==
    (call'.op = "UpdateLimits" /\ call = Idle) =>
        LET limits == call'.limits
            refused == \/ I64Leq(limits.MaxFileSize, WZero(8))
                       \/ I64Negative(limits.MinFileSize)
                       \/ I64Leq(limits.MaxFileSize, limits.MinFileSize)
        IN /\ (ret'.err # NoError) <=> refused
           /\ IF ret'.err # NoError
              THEN UNCHANGED <<maxFileSize, minFileSize>>
              ELSE maxFileSize' = limits.MaxFileSize /\ minFileSize' = limits.MinFileSize
           /\ UNCHANGED formatLimits

\* C29: UpdateLimits is all-or-nothing: when it returns an error (max <= 0, min < 0 or
\* min >= max) neither max nor min changes, when it succeeds both are replaced by the
\* values given, and in both cases the per-format limits stay as they were.
C29_UpdateLimitsAllOrNothing == [][UpdateLimitsStep]_vars

\* UpdateLimits refused a valid maximum for its minimum, and the manager, which has
\* per-format limits, still holds the maximum it had
C29_Witness ==
    /\ call.op = "UpdateLimits"
    /\ ret.err = ErrMinNotBelowMax
    /\ call.limits.MaxFileSize = I64(2)
    /\ call.limits.MinFileSize = I64(2)
    /\ call.before = <<maxFileSize, minFileSize>>
    /\ maxFileSize = GiB2
    /\ DOMAIN formatLimits # {}

-----------------------------------------------------------------------------
(* The claims on the declared content type *)

WithContentType(request, contentType) == [request EXCEPT !.ContentType = contentType]

\* C30: the result of ValidateFormat depends on the filename and the bytes alone: a
\* request that differs from the call's in nothing but the content type (an empty one,
\* one of another format than the bytes') gets the same result.  In
\* ComprehensiveValidation the format check and the content-type check do not depend
\* on each other: FormatValid and DetectedFormat are what ValidateFormat finds for the
\* filename and the bytes under any content type, and ContentTypeValid is what
\* ValidateContentType finds for the content type under any filename and bytes.
C30_ContentTypeDoesNotDecideTheFormat ==
    /\ call.op = "ValidateFormat" =>
          \A contentType \in ContentTypes :
             ValidateFormat(WithContentType(call, contentType)) = ret
    /\ call.op = "ComprehensiveValidation" =>
          /\ ret.err = NoError
          /\ ret.result.ContentTypeValid = (ValidateContentType(call.ContentType) = NoError)
          /\ \A contentType \in ContentTypes :
                LET format == ValidateFormat([Filename |-> call.Filename,
                                              ContentType |-> contentType,
                                              Data |-> call.Data])
                    other == ComprehensiveValidation(WithContentType(call, contentType))
                IN /\ ret.result.FormatValid = (format.err = NoError /\ format.result.IsValid)
                   /\ ret.result.FormatValid =>
                         ret.result.DetectedFormat = format.result.DetectedFormat
                   /\ other.result.FormatValid = ret.result.FormatValid
                   /\ other.result.DetectedFormat = ret.result.DetectedFormat
          /\ \A filename \in DeclaredFilenames :
                LET other == ComprehensiveValidation([call EXCEPT !.Filename = filename])
                IN other.result.ContentTypeValid = ret.result.ContentTypeValid

\* MP4 bytes under an .mp4 name declared as video/webm: the format is valid and
\* detected as mp4, the content type is valid too
C30_Witness ==
    /\ call.op = "ComprehensiveValidation"
    /\ call.ContentType = "video/webm"
    /\ call.Filename = <<"v", ".", "m", "p", "4">>
    /\ ret.result.FormatValid
    /\ ret.result.DetectedFormat = MP4
    /\ ret.result.ContentTypeValid
    /\ ret.result.IsValid

=============================================================================
